---------------------------- MODULE Spec2Model ----------------------------
(***************************************************************************)
(* Model of the unifile orchestration layer: the extension registry and    *)
(* dispatcher (pipeline.extract_to_table), the runtime configuration       *)
(* overlay, the content-addressed Manifest, recursive archive extraction   *)
(* (ArchiveExtractor._extract) and the concurrent batch runner             *)
(* (pipeline.extract_paths).                                               *)
(*                                                                         *)
(* Three specifications share the definitions of this module:              *)
(*   Spec        sequential extract_to_table calls with one Manifest       *)
(*   ArchSpec    sequential archive extractions, one frame per call of     *)
(*               ArchiveExtractor._extract (FairArchSpec adds the          *)
(*               progress of a running sequential call)                    *)
(*   BatchSpec   one extract_paths call with its worker threads            *)
(***************************************************************************)
EXTENDS Integers, Sequences, FiniteSets, TLC

(***************************************************************************)
(* Bounds of the model.                                                    *)
(***************************************************************************)
MaxCalls     == 3   \* extract_to_table calls of one sequential run
MaxWrites    == 1   \* file rewrites of one sequential run
MaxReloads   == 1   \* Manifest constructions on the existing log
MaxMaxDepth  == 2   \* largest UNIFILE_ARCHIVE_MAX_DEPTH tried
MaxRuns      == 2   \* top-level archive extractions of one run
MaxPaths     == 3   \* longest input list of extract_paths
MaxRetries   == 3   \* largest FetchOptions.retries tried

None == "None"

(***************************************************************************)
(* Strings that the code transforms are sequences of characters.           *)
(***************************************************************************)
LowerChar(c) ==
    CASE c = "T" -> "t"
      [] c = "X" -> "x"
      [] c = "Z" -> "z"
      [] c = "I" -> "i"
      [] c = "P" -> "p"
      [] OTHER   -> c

Lower(s) == [i \in 1..Len(s) |-> LowerChar(s[i])]

RECURSIVE LStripDot(_)
LStripDot(s) ==
    IF s # <<>> /\ Head(s) = "." THEN LStripDot(Tail(s)) ELSE s

\* suffixes as pathlib.Path.suffix gives them
SfxTxt   == <<".", "t", "x", "t">>
SfxTXT   == <<".", "T", "X", "T">>
SfxPptx  == <<".", "p", "p", "t", "x">>
SfxFoo   == <<".", "f", "o", "o">>
SfxQqq   == <<".", "q", "q", "q">>
SfxZip   == <<".", "z", "i", "p">>
SfxZIP   == <<".", "Z", "I", "P">>
SfxNone  == <<>>
SfxPdf   == <<".", "p", "d", "f">>
SfxPng   == <<".", "p", "n", "g">>
SfxCsv   == <<".", "c", "s", "v">>
SfxWav   == <<".", "w", "a", "v">>

\* registry keys
ExtTxt   == <<"t", "x", "t">>
ExtPptx  == <<"p", "p", "t", "x">>
ExtFoo   == <<"f", "o", "o">>
ExtZip   == <<"z", "i", "p">>
ExtPdf   == <<"p", "d", "f">>
ExtPng   == <<"p", "n", "g">>
ExtCsv   == <<"c", "s", "v">>
ExtWav   == <<"w", "a", "v">>

\* str(n) and int(s) for the small numbers the program writes
Digits == <<"0", "1", "2", "3", "4", "5", "6", "7", "8", "9">>

Str(n) == Digits[n + 1]

ParseInt(s) == (CHOOSE i \in 1..Len(Digits) : Digits[i] = s) - 1

\* utils.norm_ext: Path(p).suffix.lower().lstrip(".")
norm_ext(p) == LStripDot(Lower(p.suffix))

(***************************************************************************)
(* Paths and file contents.  A path is its directory, stem and suffix; a   *)
(* file content is what the bytes are (id), the text a reader gets, the    *)
(* number of slides a presentation parser finds and whether reading or     *)
(* parsing the bytes fails.                                                *)
(***************************************************************************)
MkPath(d, s, x) == [dir |-> d, stem |-> s, suffix |-> x]

Basename(p) == [stem |-> p.stem, suffix |-> p.suffix]

MkContent(i, t, n, b) == [id |-> i, text |-> t, slides |-> n, bad |-> b]

NoFile == [id |-> 0, text |-> <<>>, slides |-> 0, bad |-> FALSE]

\* what a path holds when it names a directory
Directory == [id |-> 0, text |-> <<>>, slides |-> 0, bad |-> TRUE]

\* path.exists() and path.is_file()
IsFile(c) == c \notin {NoFile, Directory}

\* Manifest._hash_file: (sha256(data).hexdigest(), len(data)); the digest is
\* one value per byte content and never the empty string
HashFile(c) == <<<<"sha256", c.id>>, Len(c.text)>>

(***************************************************************************)
(* Rows (Units).                                                           *)
(***************************************************************************)
EmptyMap == [k \in {} |-> None]

MapPut(m, k, v) == [x \in (DOMAIN m) \cup {k} |-> IF x = k THEN v ELSE m[x]]

\* Python truth value of a string or a dict: empty is false
Falsy(x) == x = <<>>

Row(sp, sn, ft, ut, uid, txt, cc, md, st, err) ==
    [source_path |-> sp, source_name |-> sn, file_type |-> ft,
     unit_type |-> ut, unit_id |-> uid, content |-> txt, char_count |-> cc,
     metadata |-> md, status |-> st, error |-> err]

\* (mutant) the count is left at zero instead of being computed
make_row_NoCount(path, file_type, unit_type, unit_id, content, metadata, status, error) ==
    LET txt == IF Falsy(content) THEN <<>> ELSE content
    IN  Row(path, Basename(path), file_type, unit_type, unit_id, txt, 0,
            IF Falsy(metadata) THEN EmptyMap ELSE metadata, status, error)

\* base.make_row
make_row(path, file_type, unit_type, unit_id, content, metadata, status, error) ==
    LET txt == IF Falsy(content) THEN <<>> ELSE content
    IN  Row(path, Basename(path), file_type, unit_type, unit_id, txt, Len(txt),
            IF Falsy(metadata) THEN EmptyMap ELSE metadata, status, error)

\* the file_type BaseExtractor.extract computes: suffix.lstrip(".").lower() or "unknown"
BaseFileType(p) ==
    LET ft == Lower(LStripDot(p.suffix))
    IN  IF ft = <<>> THEN <<"unknown">> ELSE ft


ErrorRowBase(p, md, err) ==
    make_row(p, BaseFileType(p), "file", "body", <<>>, md, "error", err)

\* the result of one call: a list of rows, or an exception
Returned(rows) == [raised |-> FALSE, exc |-> None, rows |-> rows]

Raised(e) == [raised |-> TRUE, exc |-> e, rows |-> <<>>]

\* TextExtractor._extract: one row with the text, or one explicit error row
\* when the file cannot be read
TextExtractor_extract(p, c) ==
    IF c.bad
    THEN Returned(<<make_row(p, <<"t", "x", "t">>, "file", "body", <<>>,
                             [exc |-> "OSError"], "error", "OSError")>>)
    ELSE LET ft == Lower(LStripDot(p.suffix))
         IN  Returned(<<make_row(p, IF ft = <<>> THEN <<"t", "x", "t">> ELSE ft,
                                 "file", "body", c.text,
                                 [encoding |-> "auto"], "ok", None)>>)

\* PptxExtractor._extract: Presentation() raises on unparsable bytes, else
\* one row per slide (none for a deck without slides)
PptxExtractor_extract(p, c) ==
    IF c.bad
    THEN Raised("PackageNotFoundError")
    ELSE Returned([i \in 1..c.slides |->
                      make_row(p, <<"p", "p", "t", "x">>, "slide", Str(i - 1), <<>>,
                               [slide_index |-> i - 1], "ok", None)])

\* _extract handing back an object that is no list, of the type named
NotAList(t) == [raised |-> FALSE, exc |-> None, rows |-> <<>>, type |-> t]

\* isinstance(rows, list)
IsList(r) == "type" \notin DOMAIN r

\* the exception classes that derive from BaseException but not from
\* Exception
BaseOnly == {"KeyboardInterrupt", "SystemExit", "GeneratorExit"}

\* what "except Exception" catches
IsException(e) == e \notin BaseOnly

\* BaseExtractor.extract around a subclass _extract whose result is inner:
\* the error row for a path that is no regular file, the error row for what
\* "except Exception" catches (the TypeError of a value that is no list
\* included), the exception itself when the handler does not catch it, else
\* the list
BaseExtractor_extract(p, exists, inner) ==
    IF ~exists
    THEN Returned(<<ErrorRowBase(p, [reason |-> "not_found"], "Not a file")>>)
    ELSE IF inner.raised
         THEN IF IsException(inner.exc)
              THEN Returned(<<ErrorRowBase(p, [exception |-> inner.exc], inner.exc)>>)
              ELSE inner
         ELSE IF ~IsList(inner)
              THEN Returned(<<ErrorRowBase(p, [exception |-> "TypeError"], "TypeError")>>)
              ELSE inner

\* an extractor registered by a plugin that implements the Extractor protocol
\* directly (no BaseExtractor wrapper): one row, or the parser's exception
DummyExtractor_extract(p, c) ==
    IF c.bad
    THEN Raised("RuntimeError")
    ELSE Returned(<<make_row(p, <<"f", "o", "o">>, "file", "0", <<"h", "i">>,
                             EmptyMap, "ok", None)>>)

\* the _extract of the built-in extractors whose Units are not looked into
\* here (PDF pages, OCR of an image, table rows, a transcript): the parser's
\* exception, or one row of the given unit type
UnitExtractor_extract(p, c, unit) ==
    IF c.bad
    THEN Raised("ParseError")
    ELSE Returned(<<make_row(p, BaseFileType(p), unit, "0", c.text,
                             EmptyMap, "ok", None)>>)

\* the classes the base registry constructs besides text and presentations,
\* with the unit type of their rows
UnitTypeOf(cls) ==
    CASE cls = "PdfExtractor"   -> "page"
      [] cls = "ImageExtractor" -> "image"
      [] cls = "CsvExtractor"   -> "table"
      [] cls = "AudioExtractor" -> "audio"
      [] OTHER                  -> None

\* extractor.extract(path) for the extractor classes that read one file
Extract(cls, p, c) ==
    CASE cls = "TextExtractor" -> BaseExtractor_extract(p, TRUE, TextExtractor_extract(p, c))
      [] cls = "PptxExtractor" -> BaseExtractor_extract(p, TRUE, PptxExtractor_extract(p, c))
      [] UnitTypeOf(cls) # None ->
           BaseExtractor_extract(p, TRUE, UnitExtractor_extract(p, c, UnitTypeOf(cls)))
      [] OTHER                 -> DummyExtractor_extract(p, c)

(***************************************************************************)
(* Registry.                                                               *)
(***************************************************************************)
\* REGISTRY_BASE as import leaves it: one extension for each kind of built-in
\* single-file extractor, named by the class its factory constructs
REGISTRY_BASE ==
    [e \in {ExtTxt, ExtPptx, ExtPdf, ExtPng, ExtCsv, ExtWav} |->
        CASE e = ExtTxt  -> "TextExtractor"
          [] e = ExtPptx -> "PptxExtractor"
          [] e = ExtPdf  -> "PdfExtractor"
          [] e = ExtPng  -> "ImageExtractor"
          [] e = ExtCsv  -> "CsvExtractor"
          [] OTHER       -> "AudioExtractor"]

\* dict.update
DictUpdate(d, u) ==
    [k \in (DOMAIN d) \cup (DOMAIN u) |-> IF k \in DOMAIN u THEN u[k] ELSE d[k]]

\* pipeline.detect_extractor: the normalized extension if registered, else None
detect_extractor(reg, p) ==
    LET ext == norm_ext(p)
    IN  IF ext \in DOMAIN reg THEN ext ELSE <<None>>

(***************************************************************************)
(* Row normalization.                                                      *)
(***************************************************************************)
Cols == <<"source_path", "source_name", "file_type", "unit_type", "unit_id",
          "content", "char_count", "metadata", "status", "error">>

ColSet == {Cols[i] : i \in 1..Len(Cols)}

\* pipeline._rows_to_df: the canonical columns in order, a missing cell None
rows_to_df(rows) ==
    [columns |-> Cols,
     rows    |-> [i \in 1..Len(rows) |->
                    [c \in ColSet |->
                        IF c \in DOMAIN rows[i] THEN rows[i][c] ELSE None]]]

\* A Python dict keeps insertion order: it is a sequence of <<key, value>>
\* pairs with distinct keys.
DictKeys(d) == [i \in 1..Len(d) |-> d[i][1]]

KeySet(d) == {d[i][1] : i \in 1..Len(d)}

DictGet(d, k) == d[CHOOSE i \in 1..Len(d) : d[i][1] = k][2]

Range(s) == {s[i] : i \in 1..Len(s)}

\* Row.to_dict: dataclasses.asdict lists the fields in declaration order
to_dict(row) == [i \in 1..Len(Cols) |-> <<Cols[i], row[Cols[i]]>>]

\* the cell pandas puts where a row dict has no value for a column
NaN == "NaN"

\* the table _rows_to_df returns before it has been called
NoTable == [columns |-> <<>>, rows |-> <<>>]

\* the columns of pd.DataFrame(data): the keys in the order they are first
\* seen, going through the dicts in turn
RECURSIVE ColumnsOf(_, _)
ColumnsOf(data, acc) ==
    IF data = <<>> THEN acc
    ELSE ColumnsOf(Tail(data),
                   acc \o SelectSeq(DictKeys(Head(data)),
                                    LAMBDA k : k \notin Range(acc)))

\* pd.DataFrame(data) for a list of dicts: one row per dict, in order, NaN
\* where a dict lacks a column
DataFrame(data) ==
    LET cs == ColumnsOf(data, <<>>)
    IN  [columns |-> cs,
         rows    |-> [i \in 1..Len(data) |->
                        [c \in Range(cs) |->
                            IF c \in KeySet(data[i]) THEN DictGet(data[i], c)
                            ELSE NaN]]]

\* for c in cols: if c not in df.columns: df[c] = None
RECURSIVE AddMissingColumns(_, _)
AddMissingColumns(df, cols) ==
    IF cols = <<>> THEN df
    ELSE LET c == Head(cols)
             added == [columns |-> Append(df.columns, c),
                       rows    |-> [i \in 1..Len(df.rows) |->
                                      [k \in Range(df.columns) \cup {c} |->
                                          IF k = c THEN None ELSE df.rows[i][k]]]]
         IN  AddMissingColumns(IF c \in Range(df.columns) THEN df ELSE added,
                               Tail(cols))

\* (mutant) the frame is returned with the columns it has
SelectColumns_AsIs(df, cols) == df

\* df[cols]: the named columns in the order named, every row kept
SelectColumns(df, cols) ==
    [columns |-> cols,
     rows    |-> [i \in 1..Len(df.rows) |->
                    [c \in Range(cols) |-> df.rows[i][c]]]]

\* pipeline._rows_to_df on the row dicts data = [r.to_dict() for r in rows]
RowsToDf(data) == SelectColumns(AddMissingColumns(DataFrame(data), Cols), Cols)

(***************************************************************************)
(* Runtime configuration overlay.                                          *)
(***************************************************************************)
\* _RUNTIME defaults
RUNTIME_DEFAULT ==
    [ocr_lang |-> "eng", ocr_langs |-> "eng", deterministic |-> FALSE,
     disable_pdf_ocr |-> FALSE, asr_model |-> None, asr_device |-> None,
     asr_compute_type |-> None, table_as_cells |-> FALSE]

\* keyword arguments of set_runtime_options / extract_to_table; an optional
\* bool is None, "True" or "False"
NoArgs ==
    [ocr_lang |-> None, ocr_langs |-> None, deterministic |-> None,
     no_ocr |-> None, asr_model |-> None, whisper_model |-> None,
     asr_device |-> None, asr_compute_type |-> None, table_as_cells |-> None]

Bool(s) == s = "True"

Or(a, b) == IF a = None \/ a = "" THEN b ELSE a

\* (mutant) the options that are not passed fall back to the built-in default
SetRuntime_ResetOthers(rt, a) ==
    LET model == IF a.whisper_model # None THEN a.whisper_model ELSE a.asr_model
        d     == RUNTIME_DEFAULT
    IN  [ocr_lang         |-> IF a.ocr_lang # None THEN a.ocr_lang ELSE d.ocr_lang,
         ocr_langs        |-> IF a.ocr_langs # None THEN a.ocr_langs
                              ELSE IF a.ocr_lang # None THEN a.ocr_lang ELSE d.ocr_langs,
         deterministic    |-> Bool(a.deterministic),
         disable_pdf_ocr  |-> Bool(a.no_ocr),
         asr_model        |-> model,
         asr_device       |-> a.asr_device,
         asr_compute_type |-> a.asr_compute_type,
         table_as_cells   |-> Bool(a.table_as_cells)]

\* pipeline.set_runtime_options, the merge into _RUNTIME
SetRuntime(rt, a) ==
    LET langs1 == IF a.ocr_langs # None THEN a.ocr_langs ELSE rt.ocr_langs
        langs2 == IF a.ocr_lang # None /\ a.ocr_langs = None THEN a.ocr_lang ELSE langs1
        model  == IF a.whisper_model # None THEN a.whisper_model ELSE a.asr_model
    IN  [ocr_lang         |-> IF a.ocr_lang # None THEN a.ocr_lang ELSE rt.ocr_lang,
         ocr_langs        |-> langs2,
         deterministic    |-> IF a.deterministic # None THEN Bool(a.deterministic)
                              ELSE rt.deterministic,
         disable_pdf_ocr  |-> IF a.no_ocr # None THEN Bool(a.no_ocr)
                              ELSE rt.disable_pdf_ocr,
         asr_model        |-> IF model # None THEN model ELSE rt.asr_model,
         asr_device       |-> IF a.asr_device # None THEN a.asr_device ELSE rt.asr_device,
         asr_compute_type |-> IF a.asr_compute_type # None THEN a.asr_compute_type
                              ELSE rt.asr_compute_type,
         table_as_cells   |-> IF a.table_as_cells # None THEN Bool(a.table_as_cells)
                              ELSE rt.table_as_cells]

\* (mutant) only the OCR variables are exported
ApplyRuntimeEnv_OcrOnly(rt, env) ==
    DictUpdate(env,
        [UNIFILE_OCR_LANG        |-> Or(rt.ocr_lang, "eng"),
         UNIFILE_OCR_LANGS       |-> Or(rt.ocr_langs, Or(rt.ocr_lang, "eng")),
         UNIFILE_DETERMINISTIC   |-> IF rt.deterministic THEN "1" ELSE "",
         UNIFILE_DISABLE_PDF_OCR |-> IF rt.disable_pdf_ocr THEN "1" ELSE ""])

\* pipeline._apply_runtime_env: the export of _RUNTIME into os.environ
ApplyRuntimeEnv(rt, env) ==
    LET e1 == DictUpdate(env,
                [UNIFILE_OCR_LANG        |-> Or(rt.ocr_lang, "eng"),
                 UNIFILE_OCR_LANGS       |-> Or(rt.ocr_langs, Or(rt.ocr_lang, "eng")),
                 UNIFILE_DETERMINISTIC   |-> IF rt.deterministic THEN "1" ELSE "",
                 UNIFILE_DISABLE_PDF_OCR |-> IF rt.disable_pdf_ocr THEN "1" ELSE ""])
        e2 == IF rt.asr_model # None
              THEN DictUpdate(e1, [UNIFILE_WHISPER_MODEL |-> rt.asr_model]) ELSE e1
        e3 == IF rt.asr_device # None
              THEN DictUpdate(e2, [UNIFILE_ASR_DEVICE |-> rt.asr_device]) ELSE e2
    IN  IF rt.asr_compute_type # None
        THEN DictUpdate(e3, [UNIFILE_ASR_COMPUTE_TYPE |-> rt.asr_compute_type]) ELSE e3

\* os.getenv(name, default)
Getenv(env, name, default) == IF name \in DOMAIN env THEN env[name] ELSE default

(***************************************************************************)
(* Manifest: the log is a sequence of lines, a line the sequence of tokens *)
(* json.dumps writes for one entry.                                        *)
(***************************************************************************)
\* mimetypes.guess_type(str(file_path))[0] or ""
GuessMime(p) ==
    LET e == norm_ext(p)
    IN  IF e = ExtTxt THEN "text/plain"
        ELSE IF e = ExtPptx THEN "application/vnd.ms-powerpoint.presentation"
        ELSE IF e = ExtZip THEN "application/zip"
        ELSE ""

\* the entry Manifest.record builds
Entry(p, c, status) ==
    [path |-> p, hash |-> HashFile(c)[1], bytes |-> HashFile(c)[2],
     mime |-> GuessMime(p), status |-> status]

\* json.dumps(entry): the object's tokens in key order, a brace or a
\* key with its value
JsonDumps(e) ==
    <<<<"{">>, <<"path", e.path>>, <<"hash", e.hash>>, <<"bytes", e.bytes>>,
      <<"mime", e.mime>>, <<"status", e.status>>, <<"}">>>>

\* json.loads(line): the parsed object, or a failure for text that is not
\* one complete object
JsonLoads(line) ==
    IF /\ Len(line) >= 2 /\ line[1][1] = "{" /\ line[Len(line)][1] = "}"
       /\ \A i \in 2..(Len(line) - 1) : line[i][1] \notin {"{", "}"}
    THEN [ok |-> TRUE,
          obj |-> [i \in 2..(Len(line) - 1) |-> line[i]]]
    ELSE [ok |-> FALSE, obj |-> <<>>]

\* obj.get("hash")
ObjGetHash(obj) ==
    LET hs == {i \in DOMAIN obj : obj[i][1] = "hash"}
    IN  IF hs = {} THEN <<>> ELSE obj[CHOOSE i \in hs : \A j \in hs : j <= i][2]

\* (mutant) only the first line of the log is replayed
LoadHashes_FirstLineOnly(lines, acc) ==
    IF lines = <<>> THEN acc
    ELSE LET r == JsonLoads(Head(lines))
             h == IF r.ok THEN ObjGetHash(r.obj) ELSE <<>>
         IN  IF h # <<>> THEN acc \cup {h} ELSE acc

\* Manifest.__post_init__: replay of every line of an existing log
RECURSIVE LoadHashes(_, _)
LoadHashes(lines, acc) ==
    IF lines = <<>> THEN acc
    ELSE LET r == JsonLoads(Head(lines))
             h == IF r.ok THEN ObjGetHash(r.obj) ELSE <<>>
         IN  LoadHashes(Tail(lines), IF h # <<>> THEN acc \cup {h} ELSE acc)

\* (mutant) the duplicate test looks up a digest of the size, not of the bytes
ManifestCheck_BySize(seen, c) ==
    <<<<"sha256", HashFile(c)[2]>> \in seen, HashFile(c)[1], HashFile(c)[2]>>

\* Manifest.check: (is_duplicate, hash, size)
ManifestCheck(seen, c) == <<HashFile(c)[1] \in seen, HashFile(c)[1], HashFile(c)[2]>>

\* (mutant) the entry says "ok" whatever the Units say
RecordStatus_AlwaysOk(rows) == "ok"

\* status extract_to_table records after an extraction
RecordStatus(rows) ==
    IF \E i \in 1..Len(rows) : rows[i].status # "ok" THEN "error" ELSE "ok"


(***************************************************************************)
(* Extractor instances.  An instance is its class and the option fields    *)
(* the class has; a field the class lacks stays at its placeholder.        *)
(***************************************************************************)
\* s.split("+")[0] for the language strings of the model
FirstLang(s) ==
    CASE s = "eng+fra" -> "eng"
      [] s = "fra+ita" -> "fra"
      [] OTHER         -> s

\* no extractor constructed
NoInst ==
    [cls |-> None, ocr_lang |-> None, ocr_langs |-> None,
     deterministic |-> FALSE, ocr_if_empty |-> FALSE, as_cells |-> FALSE]

\* the option fields each extractor class has
Fields(cls) ==
    CASE cls = "PdfExtractor"   -> {"ocr_lang", "ocr_langs", "deterministic", "ocr_if_empty"}
      [] cls = "ImageExtractor" -> {"ocr_lang", "ocr_langs", "deterministic"}
      [] cls = "CsvExtractor"   -> {"as_cells"}
      [] OTHER                  -> {}

\* factory(): the registry's lambdas call the constructor without arguments,
\* so every field starts at the constructor's default
Factory(cls) ==
    CASE cls = "PdfExtractor" ->
           [NoInst EXCEPT !.cls = cls, !.ocr_lang = "eng", !.ocr_if_empty = TRUE]
      [] cls = "ImageExtractor" ->
           [NoInst EXCEPT !.cls = cls, !.ocr_lang = "eng"]
      [] OTHER -> [NoInst EXCEPT !.cls = cls]

\* pipeline._apply_runtime_to_instance: the fields are assigned one after the
\* other inside try/except, so a failing split leaves the later ones unset
apply_runtime_to_instance(inst, rt) ==
    LET langs == Or(rt.ocr_langs, inst.ocr_langs)
        ocr   == IF langs = None
                 THEN inst
                 ELSE [inst EXCEPT !.ocr_langs = langs,
                                   !.ocr_lang = FirstLang(langs),
                                   !.deterministic = rt.deterministic]
    IN  CASE inst.cls = "ImageExtractor" -> ocr
          [] inst.cls = "PdfExtractor" ->
               IF langs = None THEN ocr
               ELSE [ocr EXCEPT !.ocr_if_empty = ~rt.disable_pdf_ocr]
          [] inst.cls = "CsvExtractor" -> [inst EXCEPT !.as_cells = rt.table_as_cells]
          [] OTHER -> inst

\* the environment overrides PdfExtractor._extract applies to its own fields
\* before it reads the document
PdfEnvOverrides(inst, env) ==
    LET disable == Getenv(env, "UNIFILE_DISABLE_PDF_OCR", None)
        lang    == Getenv(env, "UNIFILE_OCR_LANG", None)
        langs   == Getenv(env, "UNIFILE_OCR_LANGS", None)
        det     == Getenv(env, "UNIFILE_DETERMINISTIC", None)
    IN  [inst EXCEPT
           !.ocr_if_empty  = IF disable # None /\ disable # "" THEN FALSE ELSE @,
           !.ocr_lang      = IF lang # None /\ lang # "" THEN lang ELSE @,
           !.ocr_langs     = IF langs # None /\ langs # "" THEN langs ELSE @,
           !.deterministic = IF det # None /\ det # "" THEN TRUE ELSE @]

\* the instance as it is while extract runs
InstanceAtExtract(inst, env) ==
    IF inst.cls = "PdfExtractor" THEN PdfEnvOverrides(inst, env) ELSE inst

\* audio_extractor._ASR: class attributes shared by every AudioExtractor;
\* owner is the dispatch that loaded the model (0: not loaded)
ASR_UNINITIALIZED ==
    [initialized |-> FALSE, model |-> None, device |-> None,
     compute_type |-> None, owner |-> 0]

\* _ASR._init: the model is loaded once, from the environment of that moment
AsrInit(a, env, id) ==
    IF a.initialized THEN a
    ELSE [initialized |-> TRUE,
          model        |-> Getenv(env, "UNIFILE_ASR_MODEL", "small"),
          device       |-> Getenv(env, "UNIFILE_ASR_DEVICE", None),
          compute_type |-> Getenv(env, "UNIFILE_ASR_COMPUTE_TYPE", "default"),
          owner        |-> id]

(***************************************************************************)
(* State.                                                                  *)
(***************************************************************************)
VARIABLES
    fs,          \* the file system: path -> content (NoFile where nothing is)
    registry,    \* pipeline.REGISTRY: extension -> extractor class
    supported,   \* pipeline.SUPPORTED_EXTENSIONS
    runtime,     \* pipeline._RUNTIME
    environ,     \* os.environ
    mlog,        \* the Manifest's log file, a sequence of lines
    hashes,      \* Manifest.hashes of the live Manifest object
    last,        \* the extract_to_table call that finished last
    invocations, \* hash -> extract() calls made (all) and returned, by calls
                 \* that were given the Manifest
    recorded,    \* the hashes Manifest.record has appended
    ncalls,      \* calls of the pipeline so far
    nwrites,     \* file rewrites so far
    nreloads,    \* Manifest constructions so far
    lastOp,      \* the operation that ran last
    astack,      \* the running ArchiveExtractor._extract calls, outermost first
    scratch,     \* the scratch directories that exist
    ndirs,       \* scratch directories created so far (mkdtemp names)
    aret,        \* the value a finished call hands to its caller
    aresult,     \* what the last top-level archive extraction returned
    aruns,       \* top-level archive extractions so far
    depth0,      \* the depth counter when the top-level extraction began
    aroot,       \* the archive given to the top-level extraction
    bpaths,      \* the input list of the extract_paths call
    tasks,       \* the per-path dispatches of the extract_paths call
    doneOrder,   \* the order in which the dispatches finished
    bcall,       \* the extract_paths call: position and outcome
    dcall,       \* what the operation that ran last did: its arguments, the
                 \* factory calls it made, the instance it built, its message
    asr,         \* audio_extractor._ASR, the class-level model cache
    rowDicts,    \* the row dicts handed to _rows_to_df
    table,       \* the table _rows_to_df returned for them
    mopen,       \* whether the log ends in a line that has no newline yet
    bx,          \* the BaseExtractor.extract call made last
    cli,         \* the run of the command line made last
    fetch,       \* the _fetch_bytes call in progress
    wr,          \* the dispatches of a batch that share the Manifest, step by step
    od,          \* the dispatches of a batch that pass options, step by step
    imp,         \* the import of the package: module states, import stack, registry built
    web,         \* the extract_many call of the web extractor: clock, semaphore, coroutines
    ax,          \* the archive extractions of a batch, one per worker thread, step by step
    pkg          \* the last call of the package-level extract_to_table

seqVars == <<fs, registry, supported, runtime, environ, mlog, mopen, hashes, last,
             invocations, recorded, ncalls, nwrites, nreloads, lastOp>>

manVars == <<mlog, mopen, hashes, last, invocations, recorded, ncalls, nwrites, nreloads>>

archVars == <<astack, scratch, ndirs, aret, aresult, aruns, depth0, aroot>>

batchVars == <<bpaths, tasks, doneOrder, bcall>>

cfgVars == <<dcall, asr>>

normVars == <<rowDicts, table>>

thrVars == <<wr, od, imp, web, ax, pkg>>

\* the thread variables but one
thrVarsBut_wr == <<od, imp, web, ax, pkg>>
thrVarsBut_od == <<wr, imp, web, ax, pkg>>
thrVarsBut_imp == <<wr, od, web, ax, pkg>>
thrVarsBut_web == <<wr, od, imp, ax, pkg>>
thrVarsBut_ax == <<wr, od, imp, web, pkg>>
thrVarsBut_pkg == <<wr, od, imp, web, ax>>

oldFnVars == <<bx, cli, fetch>>

fnVars == <<oldFnVars, thrVars>>

vars == <<seqVars, archVars, batchVars, cfgVars, normVars, fnVars>>

(***************************************************************************)
(* Sequential dispatch.                                                    *)
(***************************************************************************)
Content1 == MkContent(1, <<"h", "i">>, 1, FALSE)
Content2 == MkContent(2, <<>>, 0, FALSE)          \* empty text, deck without slides
Content3 == MkContent(3, <<"x">>, 2, TRUE)        \* bytes no parser can read

Contents == {Content1, Content2, Content3}

PathA    == MkPath(<<"d1">>, "a", SfxTxt)
PathB    == MkPath(<<"d2">>, "b", SfxTXT)
PathS    == MkPath(<<"d1">>, "s", SfxPptx)
PathP    == MkPath(<<"d1">>, "p", SfxFoo)
PathU    == MkPath(<<"d1">>, "u", SfxQqq)
PathGone == MkPath(<<"d1">>, "gone", SfxTxt)
PathDir  == MkPath(<<"d1">>, "sub", SfxTxt)       \* a directory named sub.txt
PathPdf  == MkPath(<<"d1">>, "doc", SfxPdf)
PathPng  == MkPath(<<"d1">>, "img", SfxPng)
PathCsv  == MkPath(<<"d1">>, "tab", SfxCsv)
PathWav  == MkPath(<<"d1">>, "rec", SfxWav)

SeqPaths == {PathA, PathB, PathS, PathP, PathU, PathGone, PathDir}

\* the paths of the runs that look at the configuration
CfgPaths == {PathPdf, PathPng, PathCsv, PathWav}

\* the paths the user rewrites in the model
WritePaths == {PathA, PathS, PathP}

\* the keyword arguments the calls of the model pass
ArgsIta == [NoArgs EXCEPT !.ocr_lang = "ita"]

KwArgs == {NoArgs, ArgsIta}

\* what is kept of one extract_to_table call: its input, whether it was given
\* the Manifest, whether the content was a duplicate, whether extract was
\* invoked, the outcome, the number of Units extract returned, whether an
\* extraction of the content had been invoked (seen) and had returned (known)
\* before under the Manifest, the log length before it, and the values of
\* the status column of the table it returned
CallRecord(p, c, useM, dup, invoked, res, units, known, before) ==
    [path |-> p, hash |-> HashFile(c)[1], manifest |-> useM, dup |-> dup,
     invoked |-> invoked, raised |-> res.raised, exc |-> res.exc,
     nrows |-> Len(res.rows), nunits |-> units, known |-> known.returned > 0,
     seen |-> known.all > 0, logBefore |-> before,
     statuses |-> {res.rows[i].status : i \in 1..Len(res.rows)}]

NoCall ==
    CallRecord(PathGone, NoFile, FALSE, FALSE, FALSE, Raised(None), 0,
               [all |-> 0, returned |-> 0], 0)

\* (mutant) the file is opened with "w": the text replaces what was there
FileAppendLine_Rewrite(lines, open, text) == <<text>>

\* fh.write(text + "\n") on a file opened with "a": the text continues the
\* last line when that line has no newline yet
FileAppendLine(lines, open, text) ==
    IF open /\ lines # <<>>
    THEN [lines EXCEPT ![Len(lines)] = @ \o text]
    ELSE Append(lines, text)

\* (mutant) the line is appended but the seen-set is left as it was
ManifestRecord_LogOnly(p, c, status) ==
    /\ mlog' = FileAppendLine(mlog, mopen, JsonDumps(Entry(p, c, status)))
    /\ mopen' = FALSE
    /\ hashes' = hashes
    /\ recorded' = recorded \cup {HashFile(c)[1]}

\* Manifest.record: json.dumps(entry) + "\n" written at the end of the file
\* opened for appending, the hash added to the seen-set
ManifestRecord(p, c, status) ==
    /\ mlog' = FileAppendLine(mlog, mopen, JsonDumps(Entry(p, c, status)))
    /\ mopen' = FALSE
    /\ hashes' = hashes \cup {HashFile(c)[1]}
    /\ recorded' = recorded \cup {HashFile(c)[1]}

\* the table a call returns
ReturnedTable(rows) == Returned(rows_to_df(rows).rows)

\* the text of an exception: what it says, the suffix it quotes and the
\* extensions it lists
NoMessage == [text |-> None, suffix |-> <<>>, listed |-> {}]

\* (mutant) the message names the suffix but lists nothing
UnsupportedMessage_NoList(p, sup) ==
    [text |-> "Unsupported file extension", suffix |-> p.suffix, listed |-> {}]

\* the ValueError of an unresolved extension: "Unsupported file extension
\* '<suffix>'. Supported: <SUPPORTED_EXTENSIONS joined>"
UnsupportedMessage(p, sup) ==
    [text |-> "Unsupported file extension", suffix |-> p.suffix, listed |-> sup]

\* (mutant) a missing path is reported and the call goes on as if it raised
\* nothing
NotFound_ErrorTable(p) ==
    [res |-> ReturnedTable(<<ErrorRowBase(p, [reason |-> "not_found"], "Not a file")>>),
     msg |-> NoMessage]

\* the FileNotFoundError of a path that is no regular file
NotFound(p) ==
    [res |-> Raised("FileNotFoundError"),
     msg |-> [text |-> "Not a file", suffix |-> p.suffix, listed |-> {}]]

\* what is kept of one operation besides its outcome: its number, the
\* keyword arguments, the factory calls made, the instance as it was while
\* extract ran (as constructed, if extract did not run), the message of the
\* exception, the dispatches whose state extract touched, and the entry
\* points a load_plugins call discovered
Detail(id, a, n, inst, msg, touched) ==
    [id |-> id, args |-> a, nfactory |-> n, inst |-> inst, msg |-> msg,
     touched |-> touched, eps |-> <<>>]

NoDetail == Detail(0, NoArgs, 0, NoInst, NoMessage, {})

\* pipeline.extract_to_table(p, **a, manifest = M if useM else None)
ExtractToTable(p, a, useM) ==
    LET c   == fs[p]
        h   == HashFile(c)[1]
        id  == ncalls + 1
        ext == detect_extractor(registry, p)
        dup == useM /\ ManifestCheck(hashes, c)[1]
        known == IF ~IsFile(c) THEN [all |-> 0, returned |-> 0] ELSE invocations[h]
        rt  == SetRuntime(runtime, a)
        env == ApplyRuntimeEnv(rt, environ)
    IN
    /\ ncalls < MaxCalls
    /\ ncalls' = id
    /\ runtime' = rt
    /\ environ' = env
    /\ lastOp' = "extract_to_table"
    /\ UNCHANGED <<fs, registry, supported, nwrites, nreloads>>
    /\ UNCHANGED <<archVars, batchVars, normVars, fnVars>>
    /\ IF ~IsFile(c)
       THEN /\ last' = CallRecord(p, c, useM, FALSE, FALSE,
                                  NotFound(p).res, 0, known, Len(mlog))
            /\ dcall' = Detail(id, a, 0, NoInst, NotFound(p).msg, {})
            /\ UNCHANGED <<mlog, mopen, hashes, recorded, invocations, asr>>
       ELSE IF ext = <<None>>
       THEN /\ last' = CallRecord(p, c, useM, FALSE, FALSE,
                                  Raised("ValueError"), 0, known, Len(mlog))
            /\ dcall' = Detail(id, a, 0, NoInst,
                               UnsupportedMessage(p, supported), {})
            /\ UNCHANGED <<mlog, mopen, hashes, recorded, invocations, asr>>
       ELSE LET cls  == registry[ext]
                built == apply_runtime_to_instance(Factory(cls), rt)
            IN
            IF dup
            THEN /\ ManifestRecord(p, c, "duplicate")
                 /\ last' = CallRecord(p, c, useM, TRUE, FALSE,
                                       ReturnedTable(<<>>), 0, known, Len(mlog))
                 /\ dcall' = Detail(id, a, 1, built, NoMessage, {})
                 /\ UNCHANGED <<invocations, asr>>
            ELSE LET res == Extract(cls, p, c)
                 IN  /\ IF useM /\ ~res.raised
                        THEN ManifestRecord(p, c, RecordStatus(res.rows))
                        ELSE UNCHANGED <<mlog, mopen, hashes, recorded>>
                     /\ invocations' =
                           IF useM
                           THEN [invocations EXCEPT
                                   ![h] = [all |-> @.all + 1,
                                           returned |-> @.returned +
                                                        (IF res.raised THEN 0 ELSE 1)]]
                           ELSE invocations
                     /\ last' = CallRecord(p, c, useM, FALSE, TRUE,
                                           IF res.raised THEN res
                                           ELSE ReturnedTable(res.rows),
                                           Len(res.rows), known, Len(mlog))
                     /\ asr' = IF cls = "AudioExtractor"
                               THEN AsrInit(asr, env, id) ELSE asr
                     /\ dcall' = Detail(id, a, 1, InstanceAtExtract(built, env),
                                        NoMessage,
                                        {id} \cup (IF cls = "AudioExtractor"
                                                   THEN {asr'.owner} ELSE {}))

Dispatch == \E p \in SeqPaths, a \in KwArgs, useM \in BOOLEAN : ExtractToTable(p, a, useM)

\* the file at p is written (or rewritten) by the user between two calls
WriteFile ==
    /\ nwrites < MaxWrites
    /\ \E p \in WritePaths, c \in Contents :
          /\ fs[p] # c
          /\ fs' = [fs EXCEPT ![p] = c]
    /\ nwrites' = nwrites + 1
    /\ lastOp' = "write"
    /\ UNCHANGED <<registry, supported, runtime, environ, mlog, mopen, hashes, last,
                   invocations, recorded, ncalls, nreloads>>
    /\ UNCHANGED <<archVars, batchVars, cfgVars, normVars, fnVars>>

\* entry points of the group unifile_extractor.plugins: what calling the
\* loaded plugin gives, a mapping from extensions to factories or an exception
EpDummy ==
    [name |-> "dummy", kind |-> "dict",
     mapping |-> [e \in {ExtFoo} |-> "DummyExtractor"]]

EpOther ==
    [name |-> "other", kind |-> "dict",
     mapping |-> [e \in {ExtFoo, ExtTxt} |->
                    IF e = ExtFoo THEN "OtherFoo" ELSE "PluginText"]]

EpBroken == [name |-> "broken", kind |-> "raise", mapping |-> EmptyMap]

\* (mutant) a mapping is not overwritten by that of a later entry point
Loaded_FirstWins(eps, acc) ==
    LET m(i) == IF i <= Len(eps) /\ eps[i].kind = "dict"
                THEN eps[i].mapping ELSE EmptyMap
    IN  DictUpdate(m(3), DictUpdate(m(2), DictUpdate(m(1), acc)))

\* the loop of load_plugins: loaded.update(mapping) for each entry point in
\* turn, an entry point that raises is skipped
RECURSIVE Loaded(_, _)
Loaded(eps, acc) ==
    IF eps = <<>> THEN acc
    ELSE Loaded(Tail(eps),
                IF Head(eps).kind = "dict" THEN DictUpdate(acc, Head(eps).mapping)
                ELSE acc)

\* (mutant) the Registry is updated but the list of supported extensions is
\* not computed again
LoadPluginsFrom_StaleList(eps) ==
    LET loaded == Loaded(eps, EmptyMap)
    IN  /\ registry' = IF loaded # EmptyMap THEN DictUpdate(registry, loaded)
                       ELSE registry
        /\ supported' = supported
        /\ lastOp' = "load_plugins"
        /\ dcall' = [NoDetail EXCEPT !.eps = eps]
        /\ UNCHANGED <<fs, runtime, environ, mlog, mopen, hashes, last, invocations,
                       recorded, ncalls, nwrites, nreloads, asr>>
        /\ UNCHANGED <<archVars, batchVars, normVars, fnVars>>

\* pipeline.load_plugins when the entry points discovered are eps
LoadPluginsFrom(eps) ==
    LET loaded == Loaded(eps, EmptyMap)
    IN  /\ registry' = IF loaded # EmptyMap THEN DictUpdate(registry, loaded)
                       ELSE registry
        /\ supported' = IF loaded # EmptyMap THEN DOMAIN registry' ELSE supported
        /\ lastOp' = "load_plugins"
        /\ dcall' = [NoDetail EXCEPT !.eps = eps]
        /\ UNCHANGED <<fs, runtime, environ, mlog, mopen, hashes, last, invocations,
                       recorded, ncalls, nwrites, nreloads, asr>>
        /\ UNCHANGED <<archVars, batchVars, normVars, fnVars>>

\* pipeline.load_plugins with one discovered plugin that maps foo
LoadPlugins == LoadPluginsFrom(<<EpDummy>>) /\ registry' # registry

\* Manifest(path) constructed on the log as it is (a later run of the
\* program): __post_init__ replays the lines into an empty seen-set
NewManifest ==
    /\ nreloads < MaxReloads
    /\ mlog # <<>>
    /\ hashes' = LoadHashes(mlog, {})
    /\ nreloads' = nreloads + 1
    /\ lastOp' = "Manifest"
    /\ UNCHANGED <<fs, registry, supported, runtime, environ, mlog, mopen, last,
                   invocations, recorded, ncalls, nwrites>>
    /\ UNCHANGED <<archVars, batchVars, cfgVars, normVars, fnVars>>

\* the files of the sequential runs
SeqFiles ==
    [p \in SeqPaths \cup CfgPaths |->
       CASE p = PathS    -> Content2
         [] p = PathP    -> Content3
         [] p = PathGone -> NoFile
         [] p = PathDir  -> Directory
         [] OTHER        -> Content1]

\* the process after import, no Manifest entry written yet
StartState ==
    /\ fs = SeqFiles
    /\ registry = REGISTRY_BASE
    /\ supported = DOMAIN REGISTRY_BASE
    /\ runtime = RUNTIME_DEFAULT
    /\ mlog = <<>>
    /\ mopen = FALSE
    /\ hashes = {}
    /\ last = NoCall
    /\ invocations = [h \in {HashFile(c)[1] : c \in Contents} |->
                         [all |-> 0, returned |-> 0]]
    /\ recorded = {}
    /\ ncalls = 0
    /\ nwrites = 0
    /\ nreloads = 0
    /\ lastOp = "import"

\* no unifile variable set in the environment the process starts in
SeqInit == StartState /\ environ = EmptyMap

\* no value handed back
NoRet == [raised |-> FALSE, exc |-> "pending", rows |-> <<>>]

\* no archive extraction running
ArchIdle ==
    /\ astack = <<>>
    /\ scratch = {}
    /\ ndirs = 0
    /\ aret = NoRet
    /\ aresult = NoRet
    /\ aruns = 0
    /\ depth0 = 0
    /\ aroot = [kind |-> "archive", leaf |-> NoFile, arch |-> "none", n |-> 0]

\* no extract_paths call made
BatchIdle ==
    /\ bpaths = <<>>
    /\ tasks = <<>>
    /\ doneOrder = <<>>
    /\ bcall = [pc |-> "idle", args |-> NoArgs, manifest |-> FALSE,
                results |-> <<>>, exc |-> None]

\* no operation run, no model loaded
CfgIdle ==
    /\ dcall = NoDetail
    /\ asr = ASR_UNINITIALIZED

\* no list of row dicts has been normalized
NormIdle == rowDicts = <<>> /\ table = NoTable

\* no BaseExtractor.extract call made on its own
NoBx == [path |-> PathGone, kind |-> "none", inner |-> NoRet, out |-> NoRet]

\* a command line: the subcommand, whether an input was named and which,
\* whether --out was given (--one-per-line for list-types), and the values
\* of --ocr-lang, --no-ocr and --asr-model
Argv(cmd, given, path, out, ocr_lang, no_ocr, asr_model) ==
    [cmd |-> cmd, given |-> given, path |-> path, out |-> out,
     ocr_lang |-> ocr_lang, no_ocr |-> no_ocr, asr_model |-> asr_model]

\* what is kept of one run of main: how it ended (returned or raised), the
\* exit status (-1 when none was returned), the exception, whether the
\* extractor of the input ran, and what was printed and saved
CliRun(argv, pc, status, exc, extracted, printed, saved) ==
    [argv |-> argv, pc |-> pc, status |-> status, exc |-> exc,
     extracted |-> extracted, printed |-> printed, saved |-> saved]

\* no command line run
NoCli ==
    CliRun(Argv("none", FALSE, PathGone, FALSE, None, "False", None),
           "idle", -1, None, FALSE, "nothing", FALSE)

\* what is kept of one _fetch_bytes call: where it is, opts.retries and
\* opts.backoff_base, the loop variable, the requests made, the sleeps made
\* (hundredths of a second), the exception of each failed attempt, the
\* variable exc, and the attempt whose data was returned (-1: none)
FetchCall(pc, retries, backoff_base, attempt, requests, sleeps, failures, exc, data) ==
    [pc |-> pc, retries |-> retries, backoff_base |-> backoff_base,
     attempt |-> attempt, requests |-> requests, sleeps |-> sleeps,
     failures |-> failures, exc |-> exc, data |-> data]

\* no _fetch_bytes call made
NoFetch == FetchCall("idle", 0, 0, 0, 0, <<>>, <<>>, None, -1)

\* no detect_extractor call yet
NoProbe == [path |-> PathGone, ext |-> <<None>>]

\* the process before its first import of the package
NoImport ==
    [entry |-> "none", archDeps |-> FALSE, mediaDeps |-> FALSE,
     pmod |-> "absent", amod |-> "absent", stack |-> <<>>,
     include |-> "unset", reg |-> EmptyMap, probe |-> NoProbe]

\* no extract_many call yet
NoWeb ==
    [pc |-> "idle", conc |-> 0, delay |-> 0, clock |-> 0, sem |-> 0,
     last_visit |-> EmptyMap, co |-> <<>>]

\* unifile.extract_to_table (core.py) not called yet
NoPkg == [path |-> PathGone, id |-> 0, res |-> NoRet]

ThrIdle ==
    /\ wr = <<>>
    /\ od = <<>>
    /\ imp = NoImport
    /\ web = NoWeb
    /\ ax = <<>>
    /\ pkg = NoPkg

FnIdle == bx = NoBx /\ cli = NoCli /\ fetch = NoFetch /\ ThrIdle

Init == SeqInit /\ ArchIdle /\ BatchIdle /\ CfgIdle /\ NormIdle /\ FnIdle

SeqNext == Dispatch \/ WriteFile \/ LoadPlugins \/ NewManifest

Spec == Init /\ [][SeqNext]_vars

(***************************************************************************)
(* Properties of the Manifest under sequential dispatch.                   *)
(***************************************************************************)
\* the fields of the entry on line i of the log
LineObj(i) == JsonLoads(mlog[i]).obj

LineField(i, k) ==
    LET o == LineObj(i) IN o[CHOOSE j \in DOMAIN o : o[j][1] = k][2]

\* the last call was given the Manifest and got past path and extension checks
LastDispatched == last.manifest /\ (last.invoked \/ last.dup)

\* the last call was the first one on a Manifest with an empty log
LastIsFirst == LastDispatched /\ last.logBefore = 0

\* the last call presented again the file of the log's only line, unchanged
LastIsSecond ==
    /\ LastDispatched
    /\ last.logBefore = 1
    /\ Len(mlog) >= 1
    /\ LineField(1, "path") = last.path
    /\ LineField(1, "hash") = last.hash

SecondCallIsDuplicate ==
    LastIsSecond =>
        /\ ~last.raised /\ last.nrows = 0 /\ ~last.invoked
        /\ Len(mlog) = 2
        /\ LineField(2, "status") = "duplicate"

C2_AsStated ==
    /\ \A h \in DOMAIN invocations : invocations[h].all <= 1
    /\ (LastDispatched /\ last.seen) =>
          (~last.invoked /\ ~last.raised /\ last.nrows = 0)

\* C2 (amended): under one Manifest extract returns at most once per content,
\* whatever the path or name and whatever the status of the Units: once an
\* extraction of a content has returned, every later call on that content
\* returns an empty table without invoking extract.  An extraction that
\* raised is not recorded, and the next call on the content extracts again.
C2_AtMostOnceReturned ==
    /\ \A h \in DOMAIN invocations : invocations[h].returned <= 1
    /\ (LastDispatched /\ last.known) =>
          (~last.invoked /\ ~last.raised /\ last.nrows = 0 /\ last.dup)

\* a content extracted under one name with an error Unit, presented again
\* under another name
C2_Witness ==
    /\ LastDispatched /\ last.known /\ last.dup
    /\ last.logBefore >= 1
    /\ \E i \in 1..(Len(mlog) - 1) :
          /\ LineField(i, "hash") = last.hash
          /\ LineField(i, "path") # last.path
          /\ LineField(i, "status") = "error"

\* C3: the seen-set a new Manifest loads from the log equals the set of the
\* hashes of all entries appended to it, and gives for every file the verdict
\* the live Manifest gives.
C3_ReloadSameVerdicts ==
    LET loaded == LoadHashes(mlog, {})
    IN  /\ loaded = recorded
        /\ hashes = recorded
        /\ \A c \in Contents :
              ManifestCheck(loaded, c)[1] = ManifestCheck(hashes, c)[1]

C3_Witness ==
    /\ lastOp = "Manifest"
    /\ Len(mlog) >= 2
    /\ Cardinality(hashes) >= 2
    /\ \E c \in Contents : ~ManifestCheck(hashes, c)[1]


(***************************************************************************)
(* Recursive archive extraction.  A file inside or outside an archive has  *)
(* a body: the content of a single file, or an archive named by its shape. *)
(***************************************************************************)
DefaultMaxDepth == 3

\* the deepest chain of nested archives the model builds
ChainMax == (IF MaxMaxDepth > DefaultMaxDepth THEN MaxMaxDepth ELSE DefaultMaxDepth) + 1

LeafBody(c) == [kind |-> "leaf", leaf |-> c, arch |-> "", n |-> 0]

ArchBody(a, n) == [kind |-> "archive", leaf |-> NoFile, arch |-> a, n |-> n]

Member(rel, sfx, isfile, body) ==
    [rel |-> rel, suffix |-> sfx, isfile |-> isfile, body |-> body]

\* what zipfile/tarfile extractall puts into the scratch directory, in the
\* order rglob walks it; "chain" n is n archives nested in one another around
\* one text file, "quine" unpacks to a copy of itself
Members(b) ==
    CASE b.arch = "chain" ->
            IF b.n > 1
            THEN <<Member("inner", SfxZip, TRUE, ArchBody("chain", b.n - 1))>>
            ELSE <<Member("inner", SfxTxt, TRUE, LeafBody(Content1))>>
      [] b.arch = "quine" ->
            <<Member("quine", SfxZip, TRUE, ArchBody("quine", 0))>>
      [] b.arch = "mixed" ->
            <<Member("sub", SfxNone, FALSE, LeafBody(NoFile)),
              Member("u", SfxQqq, TRUE, LeafBody(Content1)),
              Member("a", SfxTxt, TRUE, LeafBody(Content1)),
              Member("s", SfxPptx, TRUE, LeafBody(Content3)),
              Member("inner", SfxZIP, TRUE, ArchBody("chain", 1))>>
      [] b.arch = "foreign" ->
            <<Member("u", SfxQqq, TRUE, LeafBody(Content1)),
              Member("noext", SfxNone, TRUE, LeafBody(Content1))>>
      [] b.arch = "raiser" ->
            <<Member("a", SfxTxt, TRUE, LeafBody(Content1)),
              Member("p", SfxFoo, TRUE, LeafBody(Content3)),
              Member("b", SfxTxt, TRUE, LeafBody(Content2))>>
      [] b.arch = "nested_raiser" ->
            <<Member("inner", SfxZip, TRUE, ArchBody("raiser", 0)),
              Member("b", SfxTxt, TRUE, LeafBody(Content2))>>
      [] OTHER -> <<>>

\* zipfile.ZipFile / tarfile.open raise on bytes that are no archive
Unpackable(b) == b.arch # "corrupt"

ArchiveRoots ==
    {ArchBody("chain", n) : n \in 1..ChainMax} \cup
    {ArchBody(a, 0) : a \in {"quine", "mixed", "foreign", "raiser",
                            "nested_raiser", "corrupt"}}

RootPath == MkPath(<<"d1">>, "outer", SfxZip)

\* int(os.getenv("UNIFILE_ARCHIVE_DEPTH", "0"))
EnvDepth(env) == ParseInt(Getenv(env, "UNIFILE_ARCHIVE_DEPTH", "0"))

\* int(os.getenv("UNIFILE_ARCHIVE_MAX_DEPTH", "3"))
EnvMaxDepth(env) == ParseInt(Getenv(env, "UNIFILE_ARCHIVE_MAX_DEPTH", Str(DefaultMaxDepth)))

\* os.environ["UNIFILE_ARCHIVE_DEPTH"] = str(d)
SetEnvDepth(env, d) == DictUpdate(env, [UNIFILE_ARCHIVE_DEPTH |-> Str(d)])

\* (mutant) the guard lets the level at the limit through
DepthExceeded_OffByOne(depth, max_depth) == depth > max_depth

\* the depth guard
DepthExceeded(depth, max_depth) == depth >= max_depth

\* (mutant) the guard's Unit is reported as a success
GuardRow_Ok(path) ==
    make_row(path, Lower(LStripDot(path.suffix)), "file", "members", <<>>,
             [warning |-> "max_depth_exceeded"], "ok", None)

\* the Unit of the depth guard
GuardRow(path) ==
    make_row(path, Lower(LStripDot(path.suffix)), "file", "members", <<>>,
             [warning |-> "max_depth_exceeded"], "error", None)

\* (mutant) the Unit says nothing about why it is there
NoteRow_NoNote(path) ==
    make_row(path, Lower(LStripDot(path.suffix)), "file", "members", <<>>,
             EmptyMap, "ok", None)

\* the Unit of an archive without a supported member
NoteRow(path) ==
    make_row(path, Lower(LStripDot(path.suffix)), "file", "members", <<>>,
             [note |-> "no supported files found"], "ok", None)

\* (mutant) a Unit that already names a member keeps that name
TagRows_KeepInner(rows, rel) ==
    [i \in 1..Len(rows) |->
        LET r == rows[i]
            md == IF Falsy(r.metadata) THEN EmptyMap ELSE r.metadata
            meta == IF "archive_member" \in DOMAIN md THEN md
                    ELSE MapPut(md, "archive_member", rel)
        IN  Row(r.source_path, r.source_name, r.file_type, r.unit_type,
                r.unit_id, r.content, r.char_count, meta, r.status, r.error)]

\* the rows of a member's table, rebuilt with the archive_member provenance
TagRows(rows, rel) ==
    [i \in 1..Len(rows) |->
        LET r == rows[i]
            meta == MapPut(IF Falsy(r.metadata) THEN EmptyMap ELSE r.metadata,
                           "archive_member", rel)
        IN  Row(r.source_path, r.source_name, r.file_type, r.unit_type,
                r.unit_id, r.content, r.char_count, meta, r.status, r.error)]

\* (mutant) the scratch directory is removed only when the walk completes
Cleanup_SuccessOnly(scr, work, exit) == IF exit = "done" THEN scr \ {work} ELSE scr

\* the finally clause: shutil.rmtree(work) on every exit of the try block
Cleanup(scr, work, exit) == scr \ {work}

Frame(path, body, depth, work, todo, out, pc) ==
    [path |-> path, body |-> body, depth |-> depth, work |-> work,
     todo |-> todo, out |-> out, pc |-> pc]

Top == astack[Len(astack)]

SetTop(f) == [astack EXCEPT ![Len(astack)] = f]

\* the running call hands ret to its caller: the enclosing extraction, or the
\* caller of the top-level extraction
ReturnToCaller(ret) ==
    /\ astack' = SubSeq(astack, 1, Len(astack) - 1)
    /\ IF Len(astack) = 1
       THEN aresult' = ret /\ aret' = NoRet
       ELSE aret' = ret /\ UNCHANGED aresult

\* the path of a member inside the scratch directory
MemberPath(work, m) == MkPath(<<"unifile_unzip_", work>>, m.rel, m.suffix)

\* str(p.relative_to(work))
RelativeTo(m) == [stem |-> m.rel, suffix |-> m.suffix]

\* ArchiveExtractor().extract(root) called by the user; the registry and the
\* environment are as earlier operations left them
BeginExtract ==
    /\ astack = <<>>
    /\ aruns < MaxRuns
    /\ \E b \in ArchiveRoots :
          /\ astack' = <<Frame(RootPath, b, 0, 0, <<>>, <<>>, "start")>>
          /\ aroot' = b
    /\ aruns' = aruns + 1
    /\ depth0' = EnvDepth(environ)
    /\ ndirs' = 0
    /\ aresult' = NoRet
    /\ lastOp' = "begin"
    /\ UNCHANGED <<fs, registry, supported, runtime, environ, manVars, scratch,
                   aret, batchVars, cfgVars, normVars, fnVars>>

\* _extract lines 58-71: the counter has reached the maximum
DepthGuard ==
    /\ astack # <<>>
    /\ UNCHANGED aroot
    /\ Top.pc = "start"
    /\ DepthExceeded(EnvDepth(environ), EnvMaxDepth(environ))
    /\ ReturnToCaller(Returned(<<GuardRow(Top.path)>>))
    /\ lastOp' = "depth_guard"
    /\ UNCHANGED <<fs, registry, supported, runtime, environ, manVars, scratch,
                   ndirs, aruns, depth0, batchVars, cfgVars, normVars, fnVars>>

\* _extract lines 73-82: mkdtemp and extractall; bytes that are no archive
\* raise, the finally clause removes the directory and BaseExtractor.extract
\* turns the exception into one error Unit
Unpack ==
    /\ astack # <<>>
    /\ UNCHANGED aroot
    /\ Top.pc = "start"
    /\ ~DepthExceeded(EnvDepth(environ), EnvMaxDepth(environ))
    /\ ndirs' = ndirs + 1
    /\ IF Unpackable(Top.body)
       THEN /\ scratch' = scratch \cup {ndirs'}
            /\ astack' = SetTop(Frame(Top.path, Top.body, EnvDepth(environ), ndirs',
                                      Members(Top.body), <<>>, "walk"))
            /\ UNCHANGED <<aret, aresult>>
            /\ lastOp' = "unpack"
       ELSE /\ scratch' = Cleanup(scratch \cup {ndirs'}, ndirs', "unpack_failed")
            /\ ReturnToCaller(BaseExtractor_extract(Top.path, TRUE, Raised("BadZipFile")))
            /\ lastOp' = "unpack_failed"
    /\ UNCHANGED <<fs, registry, supported, runtime, environ, manVars, aruns,
                   depth0, batchVars, cfgVars, normVars, fnVars>>

\* _extract lines 85-90: a directory or a file without a registered extension
WalkSkip ==
    /\ astack # <<>>
    /\ UNCHANGED aroot
    /\ Top.pc = "walk"
    /\ Top.todo # <<>>
    /\ LET m == Head(Top.todo)
       IN  /\ ~m.isfile \/ detect_extractor(registry, MemberPath(Top.work, m)) = <<None>>
           /\ astack' = SetTop([Top EXCEPT !.todo = Tail(@)])
    /\ lastOp' = "skip"
    /\ UNCHANGED <<fs, registry, supported, runtime, environ, manVars, scratch,
                   ndirs, aret, aresult, aruns, depth0, batchVars, cfgVars, normVars, fnVars>>

\* _extract lines 91-101 for a member that one extractor reads: the counter is
\* raised, extract_to_table(p) runs, the counter is restored and the rows are
\* tagged; an exception of the member's extractor leaves through the finally
\* clause and becomes this archive's error Unit in BaseExtractor.extract
DispatchFile ==
    /\ astack # <<>>
    /\ UNCHANGED aroot
    /\ Top.pc = "walk"
    /\ Top.todo # <<>>
    /\ LET m   == Head(Top.todo)
           p   == MemberPath(Top.work, m)
           ext == detect_extractor(registry, p)
           env1 == ApplyRuntimeEnv(SetRuntime(runtime, NoArgs),
                                   SetEnvDepth(environ, Top.depth + 1))
       IN  /\ m.isfile
           /\ ext # <<None>>
           /\ registry[ext] # "ArchiveExtractor"
           /\ LET res == Extract(registry[ext], p, m.body.leaf)
              IN  IF res.raised
                  THEN /\ environ' = env1
                       /\ scratch' = Cleanup(scratch, Top.work, "member_raised")
                       /\ ReturnToCaller(BaseExtractor_extract(Top.path, TRUE, res))
                       /\ lastOp' = "member_raised"
                  ELSE /\ environ' = SetEnvDepth(env1, Top.depth)
                       /\ astack' = SetTop([Top EXCEPT
                              !.todo = Tail(@),
                              !.out = @ \o TagRows(rows_to_df(res.rows).rows,
                                                   RelativeTo(m))])
                       /\ lastOp' = "member"
                       /\ UNCHANGED <<scratch, aret, aresult>>
    /\ UNCHANGED <<fs, registry, supported, runtime, manVars, ndirs, aruns,
                   depth0, batchVars, cfgVars, normVars, fnVars>>

\* _extract lines 91-92 for a member that is itself an archive: the counter is
\* raised and extract_to_table(p) enters ArchiveExtractor._extract
DispatchArchive ==
    /\ astack # <<>>
    /\ UNCHANGED aroot
    /\ Top.pc = "walk"
    /\ Top.todo # <<>>
    /\ LET m   == Head(Top.todo)
           p   == MemberPath(Top.work, m)
           ext == detect_extractor(registry, p)
       IN  /\ m.isfile
           /\ ext # <<None>>
           /\ registry[ext] = "ArchiveExtractor"
           /\ environ' = ApplyRuntimeEnv(SetRuntime(runtime, NoArgs),
                                         SetEnvDepth(environ, Top.depth + 1))
           /\ astack' = Append(SetTop([Top EXCEPT !.pc = "await"]),
                               Frame(p, m.body, 0, 0, <<>>, <<>>, "start"))
    /\ lastOp' = "enter"
    /\ UNCHANGED <<fs, registry, supported, runtime, manVars, scratch, ndirs,
                   aret, aresult, aruns, depth0, batchVars, cfgVars, normVars, fnVars>>

\* _extract lines 93-101 after the nested extraction returned its table
Resume ==
    /\ astack # <<>>
    /\ UNCHANGED aroot
    /\ Top.pc = "await"
    /\ aret # NoRet
    /\ environ' = SetEnvDepth(environ, Top.depth)
    /\ astack' = SetTop([Top EXCEPT
           !.pc = "walk",
           !.todo = Tail(@),
           !.out = @ \o TagRows(rows_to_df(aret.rows).rows, RelativeTo(Head(Top.todo)))])
    /\ aret' = NoRet
    /\ lastOp' = "resume"
    /\ UNCHANGED <<fs, registry, supported, runtime, manVars, scratch, ndirs,
                   aresult, aruns, depth0, batchVars, cfgVars, normVars, fnVars>>

\* _extract lines 102-106: every member walked
Finish ==
    /\ astack # <<>>
    /\ UNCHANGED aroot
    /\ Top.pc = "walk"
    /\ Top.todo = <<>>
    /\ scratch' = Cleanup(scratch, Top.work, "done")
    /\ ReturnToCaller(Returned(IF Top.out = <<>> THEN <<NoteRow(Top.path)>>
                               ELSE Top.out))
    /\ lastOp' = "finish"
    /\ UNCHANGED <<fs, registry, supported, runtime, environ, manVars, ndirs,
                   aruns, depth0, batchVars, cfgVars, normVars, fnVars>>

\* pipeline.REGISTRY["zip"] = lambda: ArchiveExtractor(), as the depth-limit
\* test and users do between extractions
RegisterArchive ==
    /\ astack = <<>>
    /\ registry' = DictUpdate(registry, [e \in {ExtZip} |-> "ArchiveExtractor"])
    /\ registry' # registry
    /\ supported' = supported \cup {ExtZip}
    /\ lastOp' = "register"
    /\ UNCHANGED <<fs, runtime, environ, manVars, archVars, batchVars, cfgVars, normVars, fnVars>>

\* load_plugins between extractions
ArchLoadPlugins == astack = <<>> /\ LoadPlugins

\* one step of the running extraction
ArchStep ==
    DepthGuard \/ Unpack \/ WalkSkip \/ DispatchFile \/ DispatchArchive
    \/ Resume \/ Finish

\* the maximum depth the user configures before the program starts
ArchInitEnv ==
    \/ environ = EmptyMap
    \/ \E n \in 0..MaxMaxDepth : environ = [UNIFILE_ARCHIVE_MAX_DEPTH |-> Str(n)]

ArchInit == StartState /\ ArchInitEnv /\ ArchIdle /\ BatchIdle /\ CfgIdle /\ NormIdle /\ FnIdle

ArchNext == BeginExtract \/ ArchStep \/ RegisterArchive \/ ArchLoadPlugins

ArchSpec == ArchInit /\ [][ArchNext]_vars

\* a sequential call that has begun keeps running until it returns
FairArchSpec == ArchSpec /\ WF_vars(ArchStep)


(***************************************************************************)
(* Properties of archive extraction.                                       *)
(***************************************************************************)
\* the frames that have unpacked their archive and not yet returned
Unpacked == {i \in 1..Len(astack) : astack[i].pc \in {"walk", "await"}}

ActiveLevels == Cardinality(Unpacked)

IsGuardUnit(r) ==
    /\ r.status = "error"
    /\ "warning" \in DOMAIN r.metadata
    /\ r.metadata["warning"] = "max_depth_exceeded"

\* C4: an extraction that starts while the depth counter is at or above the
\* maximum returns exactly one error Unit tagged max_depth_exceeded, raises
\* nothing, creates no scratch directory and dispatches no member.
C4_GuardSingleErrorUnit ==
    [][(/\ astack # <<>>
        /\ Top.pc = "start"
        /\ EnvDepth(environ) >= EnvMaxDepth(environ))
       =>
       (/\ astack' = SubSeq(astack, 1, Len(astack) - 1)
        /\ LET ret == IF Len(astack) = 1 THEN aresult' ELSE aret'
           IN  /\ ~ret.raised
               /\ Len(ret.rows) = 1
               /\ IsGuardUnit(ret.rows[1])
        /\ scratch' = scratch
        /\ ndirs' = ndirs
        /\ environ' = environ)]_vars

\* the guard stopped a nested archive at the default maximum depth
C4_Witness ==
    /\ lastOp = "depth_guard"
    /\ astack # <<>>
    /\ Len(aret.rows) = 1
    /\ IsGuardUnit(aret.rows[1])
    /\ EnvDepth(environ) = DefaultMaxDepth
    /\ "UNIFILE_ARCHIVE_MAX_DEPTH" \notin DOMAIN environ

\* C5: extracting, with the counter at 0, a chain of archives nested one level
\* deeper than the maximum depth yields exactly one Unit, the depth guard's,
\* and no archive at a nesting level at or beyond the maximum is unpacked.
C5_ChainOneUnit ==
    (aroot = ArchBody("chain", EnvMaxDepth(environ) + 1) /\ depth0 = 0) =>
        /\ \A i \in Unpacked : i - 1 < EnvMaxDepth(environ)
        /\ (astack = <<>> /\ aresult # NoRet) =>
              /\ Len(aresult.rows) = 1
              /\ IsGuardUnit(aresult.rows[1])

\* C6: a sequential archive extraction always returns, and the number of
\* archives unpacked at the same time never exceeds the maximum depth.
C6_TerminatesWithinDepth ==
    /\ [](ActiveLevels <= EnvMaxDepth(environ))
    /\ (astack # <<>>) ~> (astack = <<>>)

\* a self-referential archive was unpacked down to the default maximum depth
\* and the extraction has returned
C6_Witness ==
    /\ aroot = ArchBody("quine", 0)
    /\ astack = <<>>
    /\ aresult # NoRet
    /\ ndirs = DefaultMaxDepth
    /\ "UNIFILE_ARCHIVE_MAX_DEPTH" \notin DOMAIN environ

BatchPaths == {PathA, PathB, PathP, PathGone}

\* the keyword arguments the batches of the model forward to every dispatch
BatchKwArgs == {ArgsIta}

\* the input lists
BatchInputs == UNION {[1..n -> BatchPaths] : n \in 0..MaxPaths}

\* one per-path dispatch: _one(p), i.e. extract_to_table(p, **kwargs) in a
\* worker thread, with its position in extract_to_table
Task(p) == [path |-> p, pc |-> "queued", dup |-> FALSE, res |-> NoRet]

Finished(t) == t.pc \in {"done", "raised"}

\* the dispatches that have raised, in the order they finished
RaisedInOrder(ts, order) == SelectSeq(order, LAMBDA i : ts[i].pc = "raised")

\* (mutant) the tables are collected in the order the dispatches finished
GatherResults_CompletionOrder(ts, order) ==
    [i \in 1..Len(ts) |-> ts[order[i]].res.rows]

\* asyncio.gather(*coros) when every awaitable succeeded: the results in the
\* order of the awaitables
GatherResults(ts, order) == [i \in 1..Len(ts) |-> ts[i].res.rows]

\* (mutant) a raising dispatch becomes an error table at its position and the
\* call returns
GatherRaised_ErrorTable(ts, order) ==
    [pc |-> "returned", exc |-> None,
     results |-> [i \in 1..Len(ts) |->
                    IF ts[i].pc = "raised"
                    THEN rows_to_df(<<ErrorRowBase(ts[i].path,
                                                   [exception |-> ts[i].res.exc],
                                                   ts[i].res.exc)>>).rows
                    ELSE ts[i].res.rows]]

\* asyncio.gather(*coros) with return_exceptions left False: the exception of
\* the awaitable that raised first is propagated and nothing is returned
GatherRaised(ts, order) ==
    [pc |-> "raised", exc |-> ts[Head(RaisedInOrder(ts, order))].res.exc,
     results |-> <<>>]

\* extract_paths(paths, **a, manifest = M if useM else None) up to the await:
\* gather wraps every coroutine in a task and each task hands its
\* extract_to_table call to a worker thread
StartBatch ==
    /\ bcall.pc = "idle"
    /\ \E paths \in BatchInputs, a \in BatchKwArgs, useM \in BOOLEAN :
          /\ bpaths' = paths
          /\ tasks' = [i \in 1..Len(paths) |-> Task(paths[i])]
          /\ bcall' = [bcall EXCEPT !.pc = "awaiting", !.args = a,
                                    !.manifest = useM]
    /\ doneOrder' = <<>>
    /\ lastOp' = "extract_paths"
    /\ UNCHANGED <<fs, registry, supported, runtime, environ, manVars>>
    /\ UNCHANGED <<archVars, cfgVars, normVars, fnVars>>

\* worker i: set_runtime_options(**kwargs)
T_SetOptions(i) ==
    /\ tasks[i].pc = "queued"
    /\ runtime' = SetRuntime(runtime, bcall.args)
    /\ environ' = ApplyRuntimeEnv(runtime', environ)
    /\ tasks' = [tasks EXCEPT ![i].pc = "configured"]
    /\ lastOp' = "set_runtime_options"
    /\ UNCHANGED <<fs, registry, supported, manVars, bpaths, doneOrder, bcall>>
    /\ UNCHANGED <<archVars, cfgVars, normVars, fnVars>>

\* worker i: the path test, detect_extractor and the construction of the
\* extractor; a missing file or an unknown extension raises
T_Resolve(i) ==
    LET p == tasks[i].path
        exc == IF ~IsFile(fs[p]) THEN "FileNotFoundError"
               ELSE IF detect_extractor(registry, p) = <<None>> THEN "ValueError"
               ELSE None
    IN  /\ tasks[i].pc = "configured"
        /\ IF exc # None
           THEN /\ tasks' = [tasks EXCEPT ![i].pc = "raised", ![i].res = Raised(exc)]
                /\ doneOrder' = Append(doneOrder, i)
           ELSE /\ tasks' = [tasks EXCEPT
                               ![i].pc = IF bcall.manifest THEN "built" ELSE "checked"]
                /\ UNCHANGED doneOrder
        /\ lastOp' = "detect_extractor"
        /\ UNCHANGED <<fs, registry, supported, runtime, environ, manVars,
                       bpaths, bcall>>
        /\ UNCHANGED <<archVars, cfgVars, normVars, fnVars>>

\* worker i: manifest.check(path)
T_Check(i) ==
    /\ tasks[i].pc = "built"
    /\ tasks' = [tasks EXCEPT
                   ![i].pc = "checked",
                   ![i].dup = ManifestCheck(hashes, fs[tasks[i].path])[1]]
    /\ lastOp' = "manifest_check"
    /\ UNCHANGED <<fs, registry, supported, runtime, environ, manVars,
                   bpaths, doneOrder, bcall>>
    /\ UNCHANGED <<archVars, cfgVars, normVars, fnVars>>

\* worker i: extractor.extract(path) for content the Manifest has not seen (or
\* with no Manifest); without a Manifest the table is returned at once; an
\* exception of the extractor leaves extract_to_table
T_Extract(i) ==
    LET p   == tasks[i].path
        c   == fs[p]
        h   == HashFile(c)[1]
        res == Extract(registry[detect_extractor(registry, p)], p, c)
    IN  /\ tasks[i].pc = "checked"
        /\ ~tasks[i].dup
        /\ IF res.raised
           THEN /\ tasks' = [tasks EXCEPT ![i].pc = "raised", ![i].res = res]
                /\ doneOrder' = Append(doneOrder, i)
           ELSE IF bcall.manifest
           THEN /\ tasks' = [tasks EXCEPT ![i].pc = "extracted", ![i].res = res]
                /\ UNCHANGED doneOrder
           ELSE /\ tasks' = [tasks EXCEPT ![i].pc = "done",
                                          ![i].res = ReturnedTable(res.rows)]
                /\ doneOrder' = Append(doneOrder, i)
        /\ invocations' =
              IF bcall.manifest
              THEN [invocations EXCEPT
                      ![h] = [all |-> @.all + 1,
                              returned |-> @.returned + (IF res.raised THEN 0 ELSE 1)]]
              ELSE invocations
        /\ lastOp' = "extract"
        /\ UNCHANGED <<fs, registry, supported, runtime, environ, mlog, mopen, hashes,
                       last, recorded, ncalls, nwrites, nreloads, bpaths, bcall>>
        /\ UNCHANGED <<archVars, cfgVars, normVars, fnVars>>

\* worker i: manifest.record(path, status) and the return of the table, the
\* empty table for a duplicate
T_Record(i) ==
    LET p    == tasks[i].path
        rows == IF tasks[i].dup THEN <<>> ELSE tasks[i].res.rows
    IN  /\ \/ tasks[i].pc = "extracted"
           \/ tasks[i].pc = "checked" /\ tasks[i].dup
        /\ ManifestRecord(p, fs[p],
                          IF tasks[i].dup THEN "duplicate" ELSE RecordStatus(rows))
        /\ tasks' = [tasks EXCEPT ![i].pc = "done", ![i].res = ReturnedTable(rows)]
        /\ doneOrder' = Append(doneOrder, i)
        /\ lastOp' = "manifest_record"
        /\ UNCHANGED <<fs, registry, supported, runtime, environ, last,
                       invocations, ncalls, nwrites, nreloads, bpaths, bcall>>
        /\ UNCHANGED <<archVars, cfgVars, normVars, fnVars>>

\* the await of gather ends with the list once every dispatch has returned
GatherReturn ==
    /\ bcall.pc = "awaiting"
    /\ \A i \in 1..Len(tasks) : tasks[i].pc = "done"
    /\ bcall' = [bcall EXCEPT !.pc = "returned",
                              !.results = GatherResults(tasks, doneOrder)]
    /\ lastOp' = "gather_return"
    /\ UNCHANGED <<fs, registry, supported, runtime, environ, manVars,
                   bpaths, tasks, doneOrder>>
    /\ UNCHANGED <<archVars, cfgVars, normVars, fnVars>>

\* the await of gather ends with an exception as soon as one dispatch has
\* raised; the other dispatches are not cancelled and not waited for
GatherRaise ==
    LET out == GatherRaised(tasks, doneOrder)
    IN  /\ bcall.pc = "awaiting"
        /\ \E i \in 1..Len(tasks) : tasks[i].pc = "raised"
        /\ bcall' = [bcall EXCEPT !.pc = out.pc, !.exc = out.exc,
                                  !.results = out.results]
        /\ lastOp' = "gather_raise"
        /\ UNCHANGED <<fs, registry, supported, runtime, environ, manVars,
                       bpaths, tasks, doneOrder>>
        /\ UNCHANGED <<archVars, cfgVars, normVars, fnVars>>

\* plugins are loaded before the batch is started
BatchLoadPlugins == bcall.pc = "idle" /\ LoadPlugins

WorkerStep ==
    \E i \in 1..Len(tasks) :
       T_SetOptions(i) \/ T_Resolve(i) \/ T_Check(i) \/ T_Extract(i) \/ T_Record(i)

BatchNext ==
    StartBatch \/ WorkerStep \/ GatherReturn \/ GatherRaise \/ BatchLoadPlugins

BatchSpec == Init /\ [][BatchNext]_vars

(***************************************************************************)
(* Properties of batch extraction.                                         *)
(***************************************************************************)
\* the tables a dispatch of p can return in the current process: the table of
\* its extraction, or the empty table of a duplicate under a Manifest
DispatchTables(p) ==
    LET ext == detect_extractor(registry, p)
        res == Extract(registry[ext], p, fs[p])
    IN  IF ~IsFile(fs[p]) \/ ext = <<None>> \/ res.raised THEN {}
        ELSE {ReturnedTable(res.rows).rows} \cup
             (IF bcall.manifest THEN {<<>>} ELSE {})

\* C8: a returned extract_paths call delivers exactly one table per input
\* path, and the table at position i is the one the dispatch of paths[i]
\* returned (its rows name paths[i]), in whatever order the workers finished.
C8_ResultsInInputOrder ==
    bcall.pc = "returned" =>
       /\ Len(bcall.results) = Len(bpaths)
       /\ \A i \in 1..Len(bpaths) :
             /\ tasks[i].path = bpaths[i]
             /\ bcall.results[i] = tasks[i].res.rows
             /\ bcall.results[i] \in DispatchTables(bpaths[i])
             /\ \A k \in 1..Len(bcall.results[i]) :
                   bcall.results[i][k].source_path = bpaths[i]

\* a returned batch whose last input finished first, with different tables
\* at the first and the last position
C8_Witness ==
    /\ bcall.pc = "returned"
    /\ Len(bpaths) >= 2
    /\ doneOrder[1] = Len(bpaths)
    /\ bcall.results[1] # <<>>
    /\ bcall.results[Len(bpaths)] # <<>>
    /\ bcall.results[1][1].source_name # bcall.results[Len(bpaths)][1].source_name

\* C9: extract_paths starts one dispatch per input path, and the call has
\* not finished, by returning or by raising, while a dispatch it started is
\* still running.
C9_FanInBarrier ==
    /\ bcall.pc # "idle" =>
          /\ Len(tasks) = Len(bpaths)
          /\ \A i \in 1..Len(bpaths) : tasks[i].path = bpaths[i]
    /\ bcall.pc \in {"returned", "raised"} =>
          \A i \in 1..Len(tasks) : Finished(tasks[i])

\* C10: when a dispatch has raised, the await of extract_paths can only end
\* by raising an exception one of the dispatches raised (a missing file, an
\* unsupported type, or the exception of an extractor); no table is
\* delivered, neither those of the dispatches that succeeded nor an error
\* table for the failed path.
C10_FailureAbortsBatch ==
    [][(/\ bcall.pc = "awaiting"
        /\ bcall'.pc # "awaiting"
        /\ \E i \in 1..Len(tasks) : tasks[i].pc = "raised")
       => /\ bcall'.pc = "raised"
          /\ bcall'.results = <<>>
          /\ bcall'.exc \in {"FileNotFoundError", "ValueError", "RuntimeError"}
          /\ \E i \in 1..Len(tasks) :
                tasks[i].pc = "raised" /\ tasks[i].res.exc = bcall'.exc]_vars

\* the exception of a plugin's extractor has ended the batch although the
\* dispatch of another path had returned a table with a row
C10_Witness ==
    /\ bcall.pc = "raised"
    /\ bcall.exc = "RuntimeError"
    /\ bcall.results = <<>>
    /\ \E i \in 1..Len(tasks) : tasks[i].pc = "done" /\ tasks[i].res.rows # <<>>

(***************************************************************************)
(* Failures of extract_to_table before an extractor exists.                *)
(***************************************************************************)
\* C11: a call on an existing regular file whose normalized extension is no
\* key of the Registry raises ValueError, the message lists the supported
\* extensions, and the call has called no factory and built no extractor.
C11_UnsupportedRaises ==
    (/\ lastOp = "extract_to_table"
     /\ IsFile(fs[last.path])
     /\ norm_ext(last.path) \notin DOMAIN registry)
    => /\ last.raised
       /\ last.exc = "ValueError"
       /\ dcall.msg.text = "Unsupported file extension"
       /\ dcall.msg.listed = supported
       /\ supported = DOMAIN registry
       /\ dcall.nfactory = 0
       /\ dcall.inst = NoInst
       /\ ~last.invoked

\* an unknown extension was refused after a plugin had been loaded, and the
\* message lists the plugin's extension with the built-in ones
C11_Witness ==
    /\ lastOp = "extract_to_table"
    /\ last.path = PathU
    /\ last.raised
    /\ dcall.msg.listed = DOMAIN REGISTRY_BASE \cup {ExtFoo}

MaxCfgCalls == 2   \* calls of one configuration run

\* the keyword arguments of the configuration runs
CfgKwArgs ==
    {NoArgs,
     ArgsIta,
     [NoArgs EXCEPT !.ocr_langs = "eng+fra"],
     [NoArgs EXCEPT !.ocr_lang = "ita", !.ocr_langs = "eng+fra"],
     [NoArgs EXCEPT !.ocr_lang = ""],
     [NoArgs EXCEPT !.deterministic = "True", !.no_ocr = "True",
                    !.table_as_cells = "True"],
     [NoArgs EXCEPT !.deterministic = "False", !.no_ocr = "False"],
     [NoArgs EXCEPT !.asr_device = "cuda"],
     [NoArgs EXCEPT !.asr_model = "base", !.whisper_model = "large",
                    !.asr_compute_type = "int8"]}

\* the environments the process may start in
CfgEnvs ==
    {EmptyMap,
     [v \in {"UNIFILE_OCR_LANG"} |-> "ita"],
     [v \in {"UNIFILE_ASR_DEVICE"} |-> "cpu"]}

\* a direct call of pipeline.set_runtime_options(**a)
SetRuntimeOptions(a) ==
    /\ ncalls < MaxCfgCalls
    /\ ncalls' = ncalls + 1
    /\ runtime' = SetRuntime(runtime, a)
    /\ environ' = ApplyRuntimeEnv(runtime', environ)
    /\ lastOp' = "set_runtime_options"
    /\ dcall' = Detail(ncalls + 1, a, 0, NoInst, NoMessage, {})
    /\ UNCHANGED <<fs, registry, supported, mlog, mopen, hashes, last, invocations,
                   recorded, nwrites, nreloads, asr>>
    /\ UNCHANGED <<archVars, batchVars, normVars, fnVars>>

CfgSet == \E a \in CfgKwArgs : SetRuntimeOptions(a)

CfgDispatch ==
    /\ ncalls < MaxCfgCalls
    /\ \E p \in CfgPaths, a \in CfgKwArgs : ExtractToTable(p, a, FALSE)

CfgInit ==
    StartState /\ environ \in CfgEnvs /\ ArchIdle /\ BatchIdle /\ CfgIdle /\ NormIdle /\ FnIdle

CfgNext == CfgSet \/ CfgDispatch

CfgSpec == CfgInit /\ [][CfgNext]_vars

\* the dispatch that just finished ran extract on an instance of class cls
Extracted(cls) ==
    /\ lastOp = "extract_to_table"
    /\ dcall.nfactory = 1
    /\ dcall.id \in dcall.touched
    /\ dcall.inst.cls = cls

\* the value the call's argument arg selects for an option whose
\* process-wide value was cur: the argument when passed, cur otherwise
Chosen(arg, cur) == IF arg # None THEN arg ELSE cur

ChosenBool(arg, cur) == IF arg # None THEN Bool(arg) ELSE cur

\* C13: in sequential execution the instance a dispatch runs extract on
\* holds, for every option the call passed, the call's value, and for every
\* option it did not pass the value last set process-wide (initially the
\* built-in default); the ASR options passed to a dispatch of an audio file
\* are those of the model that dispatch transcribes with.
C13_InstanceHoldsChosen ==
    [][(/\ lastOp' = "extract_to_table"
        /\ dcall'.nfactory = 1
        /\ dcall'.id \in dcall'.touched)
       => LET a    == dcall'.args
              inst == dcall'.inst
              F    == Fields(inst.cls)
          IN  /\ "ocr_lang" \in F =>
                   inst.ocr_lang = Chosen(a.ocr_lang, runtime.ocr_lang)
              /\ "ocr_langs" \in F =>
                   inst.ocr_langs = Chosen(a.ocr_langs, runtime.ocr_langs)
              /\ "deterministic" \in F =>
                   inst.deterministic = ChosenBool(a.deterministic, runtime.deterministic)
              /\ "ocr_if_empty" \in F =>
                   inst.ocr_if_empty = ~ChosenBool(a.no_ocr, runtime.disable_pdf_ocr)
              /\ "as_cells" \in F =>
                   inst.as_cells = ChosenBool(a.table_as_cells, runtime.table_as_cells)
              /\ (inst.cls = "AudioExtractor" /\ a.asr_device # None) =>
                   asr'.device = a.asr_device
              /\ (inst.cls = "AudioExtractor" /\ a.asr_compute_type # None) =>
                   asr'.compute_type = a.asr_compute_type
      ]_vars

\* the variable name holds a non-empty value in the environment env
EnvSet(env, name) == name \in DOMAIN env /\ env[name] # ""

\* C14: when a dispatch is not passed an option whose environment variable
\* is already set when the dispatch starts, the variable keeps its value and
\* the dispatch uses that value: the OCR language of the instance extract
\* runs on, the device of the ASR model an audio dispatch transcribes with.
C14_EnvironmentLayer ==
    [][(lastOp' = "extract_to_table" /\ ncalls' = ncalls + 1)
       => LET a    == dcall'.args
              inst == dcall'.inst
              ran  == dcall'.nfactory = 1 /\ dcall'.id \in dcall'.touched
          IN  /\ (EnvSet(environ, "UNIFILE_OCR_LANG") /\ a.ocr_lang = None) =>
                   /\ environ'["UNIFILE_OCR_LANG"] = environ["UNIFILE_OCR_LANG"]
                   /\ (ran /\ "ocr_lang" \in Fields(inst.cls)) =>
                         inst.ocr_lang = environ["UNIFILE_OCR_LANG"]
              /\ (EnvSet(environ, "UNIFILE_ASR_DEVICE") /\ a.asr_device = None) =>
                   /\ environ'["UNIFILE_ASR_DEVICE"] = environ["UNIFILE_ASR_DEVICE"]
                   /\ (ran /\ inst.cls = "AudioExtractor") =>
                         asr'.device = environ["UNIFILE_ASR_DEVICE"]
      ]_vars

\* a step in which set_runtime_options ran, called directly or as the first
\* statement of extract_to_table
OptionsStep == ncalls' = ncalls + 1 /\ dcall'.id = ncalls'

\* the options of the process-wide configuration other than the OCR
\* language pair and the ASR model follow their argument alone
PlainOptionsMerged(a) ==
    /\ runtime'.deterministic = ChosenBool(a.deterministic, runtime.deterministic)
    /\ runtime'.disable_pdf_ocr = ChosenBool(a.no_ocr, runtime.disable_pdf_ocr)
    /\ runtime'.asr_device = Chosen(a.asr_device, runtime.asr_device)
    /\ runtime'.asr_compute_type = Chosen(a.asr_compute_type, runtime.asr_compute_type)
    /\ runtime'.table_as_cells = ChosenBool(a.table_as_cells, runtime.table_as_cells)

\* C15 as stated: every option that was passed holds the passed value and
\* every option that was not passed keeps its value.
C15_AsStated ==
    [][OptionsStep =>
         LET a == dcall'.args
         IN  /\ PlainOptionsMerged(a)
             /\ runtime'.ocr_lang = Chosen(a.ocr_lang, runtime.ocr_lang)
             /\ runtime'.ocr_langs = Chosen(a.ocr_langs, runtime.ocr_langs)
             /\ runtime'.asr_model =
                  Chosen(a.whisper_model, Chosen(a.asr_model, runtime.asr_model))
      ]_vars

\* C15: set_runtime_options gives every option that was passed the passed
\* value and leaves every other option as it was, with one exception:
\* ocr_lang passed without ocr_langs is also stored as ocr_langs.  The
\* asr_model option is set by whisper_model, or by asr_model when
\* whisper_model is not passed.  A call without arguments changes nothing.
C15_MergeOnlyPassed ==
    [][OptionsStep =>
         LET a == dcall'.args
         IN  /\ PlainOptionsMerged(a)
             /\ runtime'.ocr_lang = Chosen(a.ocr_lang, runtime.ocr_lang)
             /\ runtime'.ocr_langs =
                  Chosen(a.ocr_langs, Chosen(a.ocr_lang, runtime.ocr_langs))
             /\ runtime'.asr_model =
                  Chosen(a.whisper_model, Chosen(a.asr_model, runtime.asr_model))
             /\ a = NoArgs => runtime' = runtime
      ]_vars

\* set_runtime_options(ocr_lang = "ita") after a call that turned
\* deterministic on: both languages are "ita" and deterministic is still on
C15_Witness ==
    /\ lastOp = "set_runtime_options"
    /\ dcall.id = 2
    /\ dcall.args = ArgsIta
    /\ runtime.ocr_lang = "ita"
    /\ runtime.ocr_langs = "ita"
    /\ runtime.deterministic
    /\ runtime.disable_pdf_ocr

\* the environment variable of each ASR option
AsrVar ==
    [asr_model        |-> "UNIFILE_WHISPER_MODEL",
     asr_device       |-> "UNIFILE_ASR_DEVICE",
     asr_compute_type |-> "UNIFILE_ASR_COMPUTE_TYPE"]

\* the flag variables hold "1" for an option that is on and "" for one
\* that is off
FlagsMirrored(env, rt) ==
    /\ env["UNIFILE_DETERMINISTIC"] = (IF rt.deterministic THEN "1" ELSE "")
    /\ env["UNIFILE_DISABLE_PDF_OCR"] = (IF rt.disable_pdf_ocr THEN "1" ELSE "")

\* C16 as stated: after the options step each of the seven variables holds
\* the current value of its option (a null option: the variable is not set).
C16_AsStated ==
    [][OptionsStep =>
         /\ environ'["UNIFILE_OCR_LANG"] = runtime'.ocr_lang
         /\ environ'["UNIFILE_OCR_LANGS"] = runtime'.ocr_langs
         /\ FlagsMirrored(environ', runtime')
         /\ \A o \in DOMAIN AsrVar :
              Getenv(environ', AsrVar[o], None) = runtime'[o]
      ]_vars

\* C16: after every set_runtime_options call, and so after the first
\* statement of every extract_to_table call, UNIFILE_OCR_LANG and
\* UNIFILE_OCR_LANGS hold their options ("eng" for an empty ocr_lang, the
\* exported ocr_lang for an empty ocr_langs), the two flag variables hold
\* "1" or "", and each ASR variable holds its option when that option is
\* not null and is left as it was, set or not, while the option is null.
C16_EnvMirrorsOptions ==
    [][OptionsStep =>
         /\ environ'["UNIFILE_OCR_LANG"] = Or(runtime'.ocr_lang, "eng")
         /\ environ'["UNIFILE_OCR_LANGS"] =
              Or(runtime'.ocr_langs, environ'["UNIFILE_OCR_LANG"])
         /\ FlagsMirrored(environ', runtime')
         /\ \A o \in DOMAIN AsrVar :
              IF runtime'[o] # None
              THEN Getenv(environ', AsrVar[o], None) = runtime'[o]
              ELSE Getenv(environ', AsrVar[o], None) = Getenv(environ, AsrVar[o], None)
      ]_vars

\* a call passing asr_model, whisper_model and asr_compute_type in a process
\* started with UNIFILE_ASR_DEVICE=cpu: the model and the compute type are
\* exported, the device variable still holds cpu while the option is null
C16_Witness ==
    /\ lastOp \in {"set_runtime_options", "extract_to_table"}
    /\ runtime.asr_model = "large"
    /\ runtime.asr_device = None
    /\ environ = [UNIFILE_OCR_LANG         |-> "eng",
                  UNIFILE_OCR_LANGS        |-> "eng",
                  UNIFILE_DETERMINISTIC    |-> "",
                  UNIFILE_DISABLE_PDF_OCR  |-> "",
                  UNIFILE_WHISPER_MODEL    |-> "large",
                  UNIFILE_ASR_DEVICE       |-> "cpu",
                  UNIFILE_ASR_COMPUTE_TYPE |-> "int8"]

\* C17: a dispatch of an existing file whose extension resolves calls the
\* factory exactly once and runs extract on the instance it returned, and
\* the extractor state its extract reads or writes was created by that
\* dispatch alone (touched names the dispatches whose state it used).
C17_FreshUnsharedState ==
    (/\ lastOp = "extract_to_table"
     /\ IsFile(fs[last.path])
     /\ norm_ext(last.path) \in DOMAIN registry)
    => /\ dcall.nfactory = 1
       /\ dcall.inst.cls = registry[norm_ext(last.path)]
       /\ last.invoked
       /\ dcall.touched = {dcall.id}

(***************************************************************************)
(* Runs that look at plugin discovery: load_plugins called any number of   *)
(* times, each time with some list of discovered entry points, between     *)
(* calls of extract_to_table.                                              *)
(***************************************************************************)
MaxEps == 2   \* entry points discovered by one load_plugins call

EntryPoints == {EpDummy, EpOther, EpBroken}

\* the lists of entry points one call may discover
EntryPointLists ==
    UNION {[1..n -> EntryPoints] : n \in 0..MaxEps}

PlugLoad == \E eps \in EntryPointLists : LoadPluginsFrom(eps)

PlugPaths == {PathA, PathP, PathU}

PlugDispatch == \E p \in PlugPaths : ExtractToTable(p, NoArgs, FALSE)

PlugNext == PlugLoad \/ PlugDispatch

PluginSpec == Init /\ [][PlugNext]_vars

\* the entry points of eps that returned a mapping naming extension k
Naming(eps, k) ==
    {i \in 1..Len(eps) : eps[i].kind = "dict" /\ k \in DOMAIN eps[i].mapping}

\* the greatest element of a non-empty set of numbers
Greatest(S) == CHOOSE i \in S : \A j \in S : j <= i

\* the extensions some entry point can name
PluginExts == UNION {DOMAIN ep.mapping : ep \in EntryPoints}

\* C18: no step removes an extension from the Registry; load_plugins leaves
\* every extension no entry point named with the factory it had, and gives
\* every extension that was named the factory of the last entry point of the
\* call that named it, whether the extension was a built-in, came from an
\* earlier load, or is new; nothing but load_plugins changes the Registry.
C18_AdditiveLastWins ==
    [][/\ DOMAIN registry \subseteq DOMAIN registry'
       /\ registry' # registry => lastOp' = "load_plugins"
       /\ lastOp' = "load_plugins" =>
            LET eps == dcall'.eps
            IN  /\ DOMAIN registry' \subseteq DOMAIN registry \cup PluginExts
                /\ \A k \in DOMAIN registry \cup PluginExts :
                     IF Naming(eps, k) # {}
                     THEN /\ k \in DOMAIN registry'
                          /\ registry'[k] = eps[Greatest(Naming(eps, k))].mapping[k]
                     ELSE /\ k \in DOMAIN registry' <=> k \in DOMAIN registry
                          /\ k \in DOMAIN registry => registry'[k] = registry[k]
      ]_vars

\* a call that discovered dummy, then other, after which foo has the factory
\* of other and the built-in txt has been overridden by other as well
C18_Witness ==
    /\ lastOp = "load_plugins"
    /\ dcall.eps = <<EpDummy, EpOther>>
    /\ registry[ExtFoo] = "OtherFoo"
    /\ registry[ExtTxt] = "PluginText"
    /\ registry[ExtPptx] = "PptxExtractor"

\* the extractor classes plugins construct
PluginClasses == UNION {{ep.mapping[k] : k \in DOMAIN ep.mapping} : ep \in EntryPoints}

\* C19: when load_plugins discovers a plugin mapping an extension that was
\* not in the Registry, the extension is in SUPPORTED_EXTENSIONS and
\* detect_extractor resolves a file with that extension as soon as the call
\* returns; and every later extract_to_table of an existing file with an
\* extension only plugins registered constructs the plugin's extractor and
\* runs its extract instead of raising the unsupported-extension error.
C19_PluginDispatchable ==
    [][/\ lastOp' = "load_plugins" =>
            \A p \in PlugPaths :
               (norm_ext(p) \notin DOMAIN registry /\ Naming(dcall'.eps, norm_ext(p)) # {})
               => /\ norm_ext(p) \in supported'
                  /\ detect_extractor(registry', p) = norm_ext(p)
       /\ (/\ lastOp' = "extract_to_table"
           /\ ncalls' = ncalls + 1
           /\ IsFile(fs[last'.path])
           /\ norm_ext(last'.path) \in DOMAIN registry \ DOMAIN REGISTRY_BASE)
          => /\ norm_ext(last'.path) \in supported
             /\ dcall'.msg = NoMessage
             /\ dcall'.nfactory = 1
             /\ dcall'.inst.cls = registry[norm_ext(last'.path)]
             /\ dcall'.inst.cls \in PluginClasses
             /\ last'.invoked
      ]_vars

\* p.foo dispatched to the extractor of the dummy plugin after a load that
\* discovered it; foo is listed as supported
C19_Witness ==
    /\ lastOp = "extract_to_table"
    /\ last.path = PathP
    /\ last.invoked
    /\ dcall.inst.cls = "DummyExtractor"
    /\ ExtFoo \in supported
    /\ ExtFoo \notin DOMAIN REGISTRY_BASE

(***************************************************************************)
(* Row normalization on its own: _rows_to_df applied to lists of row dicts *)
(* of every shape, as extractors outside BaseExtractor may return them.    *)
(***************************************************************************)
MaxUnits == 3   \* row dicts in one list

\* a Row as make_row builds it, its values named after the columns
FullRow == [c \in ColSet |-> "row." \o c]

\* the dict of a Row
UFull == to_dict(FullRow)

\* a dict that lacks char_count, metadata, status and error
UMinimal == [i \in 1..6 |-> <<Cols[i], "min." \o Cols[i]>>]

\* a dict with every field, listed in the opposite order
UReordered ==
    [i \in 1..Len(Cols) |->
        <<Cols[Len(Cols) + 1 - i], "rev." \o Cols[Len(Cols) + 1 - i]>>]

\* a dict that starts with a key outside the schema and has two fields
UExtra == <<<<"page_no", "x.page_no">>, <<"error", "x.error">>,
            <<"source_path", "x.source_path">>>>

\* a dict without keys
UEmpty == <<>>

UnitShapes == {UFull, UMinimal, UReordered, UExtra, UEmpty}

UnitLists == UNION {[1..n -> UnitShapes] : n \in 0..MaxUnits}

NormInit ==
    /\ StartState /\ environ = EmptyMap
    /\ ArchIdle /\ BatchIdle /\ CfgIdle /\ FnIdle
    /\ rowDicts \in UnitLists
    /\ table = NoTable

\* table = _rows_to_df(rowDicts)
Normalize ==
    /\ table = NoTable
    /\ table' = RowsToDf(rowDicts)
    /\ UNCHANGED <<rowDicts, seqVars, archVars, batchVars, cfgVars, fnVars>>

NormNext == Normalize

NormSpec == NormInit /\ [][NormNext]_vars

\* a null cell
IsNull(v) == v \in {None, NaN}

\* C20: for every list of row dicts, the empty list, dicts lacking fields,
\* dicts listing them in another order and dicts with other keys included,
\* the table _rows_to_df returns has exactly the ten canonical columns in
\* canonical order and one row per dict in input order; a cell holds the
\* dict's value for the column, and is null where the dict has none; for
\* Rows built by make_row the table is the one rows_to_df gives.
C20_CanonicalTable ==
    table # NoTable =>
       /\ table.columns = Cols
       /\ Len(table.rows) = Len(rowDicts)
       /\ \A i \in 1..Len(rowDicts) :
            /\ DOMAIN table.rows[i] = ColSet
            /\ \A c \in ColSet :
                 IF c \in KeySet(rowDicts[i])
                 THEN table.rows[i][c] = DictGet(rowDicts[i], c)
                 ELSE IsNull(table.rows[i][c])
       /\ (\A i \in 1..Len(rowDicts) : rowDicts[i] = UFull) =>
            table = rows_to_df([i \in 1..Len(rowDicts) |-> FullRow])

\* a dict lacking four fields followed by one listing all ten backwards and
\* one with a foreign key: the first row has a null status, the second row
\* its own values, and the foreign key is no column
C20_Witness ==
    /\ rowDicts = <<UMinimal, UReordered, UExtra>>
    /\ table.columns = Cols
    /\ table.rows[1]["status"] = NaN
    /\ table.rows[1]["content"] = "min.content"
    /\ table.rows[2]["status"] = "rev.status"
    /\ table.rows[3]["file_type"] = NaN
    /\ "page_no" \notin DOMAIN table.rows[3]

(***************************************************************************)
(* Properties of the Units that dispatches return.                         *)
(***************************************************************************)
\* the lists of Units an archive extraction holds or has handed back: the
\* output of every running call, the value in flight to a caller and the
\* result of the top-level call
ArchRowLists ==
    {astack[i].out : i \in 1..Len(astack)} \cup {aret.rows, aresult.rows}

\* char_count is the length of content and metadata is a map
WellFormedUnit(r) ==
    /\ r.char_count = Len(r.content)
    /\ DOMAIN r.metadata \subseteq STRING

\* C21: every Unit of an archive extraction, whether a member's extractor
\* made it, BaseExtractor.extract made it from an exception, the depth guard
\* or the empty-archive note made it, or the archive rebuilt it from a
\* member's table, has char_count equal to the length of its content and a
\* metadata map.
C21_UnitsWellFormed ==
    \A rows \in ArchRowLists : \A i \in 1..Len(rows) : WellFormedUnit(rows[i])

\* a returned extraction with a rebuilt Unit that has text and one that is
\* the error Unit of a member
C21_Witness ==
    /\ astack = <<>>
    /\ aresult # NoRet
    /\ \E i, j \in 1..Len(aresult.rows) :
          /\ aresult.rows[i].char_count > 0
          /\ "archive_member" \in DOMAIN aresult.rows[i].metadata
          /\ aresult.rows[j].status = "error"
          /\ aresult.rows[j].char_count = 0
          /\ "archive_member" \in DOMAIN aresult.rows[j].metadata

(***************************************************************************)
(* BaseExtractor.extract on its own: a subclass whose _extract does what   *)
(* the call is given, applied to a path of the kind given.                 *)
(***************************************************************************)
PathBare == MkPath(<<"d1">>, "README", SfxNone)

BxPaths == {PathA, PathB, PathS, PathBare}

\* what the path names: a regular file, nothing, a directory, or a name that
\* stat() refuses with an error pathlib does not take for "missing" (a
\* component that is too long, a directory that may not be searched)
BxKinds == {"file", "missing", "directory", "unstatable"}

\* Path.exists() for a name stat() refuses: the OSError is raised again
\* (pathlib of Python 3.8 .. 3.12), or the answer is False
StatRefused == {Raised("OSError"), Returned(<<>>)}

\* rows a subclass may hand back for p
BxRow(p, ok) ==
    IF ok
    THEN make_row(p, <<"t", "x", "t">>, "file", "body", <<"h", "i">>,
                  [encoding |-> "auto"], "ok", None)
    ELSE make_row(p, <<"t", "x", "t">>, "file", "body", <<>>,
                  [exc |-> "OSError"], "error", "OSError")

\* the behaviours of _extract: a list of up to two rows, an object that is
\* no list, an exception
BxInners(p) ==
    {Returned(<<>>)}
    \cup {Returned(<<BxRow(p, a)>>) : a \in BOOLEAN}
    \cup {Returned(<<BxRow(p, a), BxRow(p, b)>>) : a, b \in BOOLEAN}
    \cup {NotAList(t) : t \in {"NoneType", "tuple"}}
    \cup {Raised(e) : e \in {"ValueError", "RuntimeError", "TypeError",
                            "KeyboardInterrupt", "SystemExit"}}

\* extractor.extract(p) of a BaseExtractor subclass: the validation of line
\* 195 runs before the try block
BaseExtract ==
    \E p \in BxPaths, kind \in BxKinds :
      \E inner \in BxInners(p), st \in StatRefused :
        /\ bx' = [path |-> p, kind |-> kind, inner |-> inner,
                  out |-> IF kind = "unstatable" /\ st.raised THEN st
                          ELSE BaseExtractor_extract(p, kind = "file", inner)]
        /\ UNCHANGED <<seqVars, archVars, batchVars, cfgVars, normVars, cli, fetch, thrVars>>

BaseSpec == Init /\ [][BaseExtract]_vars

\* one error Unit of BaseExtractor.extract for path p
IsOneErrorUnit(out, p) ==
    /\ ~out.raised
    /\ IsList(out)
    /\ Len(out.rows) = 1
    /\ out.rows[1].status = "error"
    /\ out.rows[1].source_path = p
    /\ out.rows[1].content = <<>>

\* what the call answers for a path that is no regular file, for an
\* exception or a value that is no list, and for a list
BxAnswers ==
    /\ bx.kind \in {"missing", "directory", "unstatable"} =>
          /\ IsOneErrorUnit(bx.out, bx.path)
          /\ bx.out.rows[1].metadata = [reason |-> "not_found"]
    /\ bx.kind = "file" /\ bx.inner.raised =>
          /\ IsOneErrorUnit(bx.out, bx.path)
          /\ bx.out.rows[1].metadata = [exception |-> bx.inner.exc]
          /\ bx.out.rows[1].error = bx.inner.exc
    /\ bx.kind = "file" /\ ~bx.inner.raised /\ "type" \in DOMAIN bx.inner =>
          /\ IsOneErrorUnit(bx.out, bx.path)
          /\ bx.out.rows[1].metadata = [exception |-> "TypeError"]
          /\ bx.out.rows[1].error = "TypeError"
    /\ bx.kind = "file" /\ ~bx.inner.raised /\ "type" \notin DOMAIN bx.inner =>
          bx.out = bx.inner

\* C22: BaseExtractor.extract never raises, whatever the path and whatever
\* _extract does: one error Unit for a path that is missing or no regular
\* file, one error Unit carrying the exception for an exception of _extract
\* or a return value that is no list, else the list of _extract unchanged.
C22_NeverRaises ==
    bx.kind # "none" => ~bx.out.raised /\ BxAnswers

(***************************************************************************)
(* The log as an append-only file.                                         *)
(***************************************************************************)
\* the step is an extract_to_table call that got as far as Manifest.record
RecordCalled ==
    /\ ncalls' = ncalls + 1
    /\ last'.manifest
    /\ last'.dup \/ (last'.invoked /\ ~last'.raised)

\* the lines of the log before the step are the first lines after it
LogKept == Len(mlog') >= Len(mlog) /\ SubSeq(mlog', 1, Len(mlog)) = mlog

\* C23: a step in which Manifest.record is called appends exactly one line
\* to the end of the log and leaves what was written before as it was; any
\* other step (a call that only checks, a call without the Manifest, the
\* construction of a Manifest on the log, a file write, load_plugins) leaves
\* the log as it was; the seen-set never loses a hash.
C23_AppendOnly ==
    [][/\ LogKept
       /\ RecordCalled => Len(mlog') = Len(mlog) + 1
       /\ ~RecordCalled => mlog' = mlog
       /\ hashes \subseteq hashes']_vars

\* two lines were appended, a Manifest was constructed on the log, and the
\* last call only checked and recorded a duplicate
C23_Witness ==
    /\ Len(mlog) = 3
    /\ nreloads = 1
    /\ last.manifest /\ last.dup
    /\ mlog[1] # mlog[2]

(***************************************************************************)
(* A log that is cut off: the process ends (a crash in the middle of an    *)
(* append, a disk that filled up), the file keeps its first bytes, and a   *)
(* later run of the program constructs its Manifest on what is left.       *)
(***************************************************************************)
\* the file cut after `whole` lines and `part` tokens of the next line; the
\* newline of that line is never kept
CutLog(lines, whole, part) ==
    SubSeq(lines, 1, whole) \o
      (IF part = 0 THEN <<>> ELSE <<SubSeq(lines[whole + 1], 1, part)>>)

\* the cut, and Manifest(path) of the next run: __post_init__ replays
\* read_text().splitlines() into an empty seen-set
CrashRecover ==
    /\ mlog # <<>>
    /\ \E whole \in 0..(Len(mlog) - 1) :
         \E part \in 0..Len(mlog[whole + 1]) :
           /\ mopen /\ whole = Len(mlog) - 1 => part < Len(mlog[whole + 1])
           /\ mlog' = CutLog(mlog, whole, part)
           /\ mopen' = (part > 0)
    /\ hashes' = LoadHashes(mlog', {})
    /\ recorded' = {}
    /\ lastOp' = "truncate"
    /\ UNCHANGED <<fs, registry, supported, runtime, environ, last,
                   invocations, ncalls, nwrites, nreloads>>
    /\ UNCHANGED <<archVars, batchVars, cfgVars, normVars, fnVars>>

CrashPaths == {PathA, PathB, PathS}

\* every call of these runs is given the Manifest
CrashDispatch == \E p \in CrashPaths : ExtractToTable(p, NoArgs, TRUE)

CrashNext == CrashDispatch \/ CrashRecover \/ NewManifest

CrashSpec == Init /\ [][CrashNext]_vars

\* the entries the calls of these runs can write
CrashEntries ==
    {Entry(p, fs[p], st) : p \in CrashPaths, st \in {"ok", "error", "duplicate"}}

\* the entries that are a complete line of the log
WholeEntries ==
    {e \in CrashEntries : \E i \in 1..Len(mlog) : mlog[i] = JsonDumps(e)}

\* C24: a Manifest constructed on a log that was cut off at any offset has
\* as its seen-set the hashes of the complete lines, and every entry it
\* appends afterwards (recorded counts them from the cut on) is in the
\* seen-set of a Manifest constructed on the log later.
C24_TruncateAndReplay ==
    /\ lastOp = "truncate" =>
         hashes = {e.hash : e \in WholeEntries}
    /\ lastOp = "Manifest" => recorded \subseteq hashes

(***************************************************************************)
(* Archives without a member that can be dispatched.                       *)
(***************************************************************************)
\* no member of b is a regular file whose extension resolves in reg
NoResolvableMember(b, reg) ==
    \A i \in 1..Len(Members(b)) :
       LET m == Members(b)[i]
       IN  ~m.isfile \/ detect_extractor(reg, MemberPath(1, m)) = <<None>>

\* C25: when the top-level extraction of an archive that unpacks and has no
\* regular file with a registered extension ends after its walk (the depth
\* guard did not trip), it returns exactly one Unit, with status ok and the
\* note "no supported files found"; no archive extraction returns an empty
\* list.
C25_NoteForNothingSupported ==
    /\ /\ astack = <<>>
       /\ lastOp = "finish"
       /\ NoResolvableMember(aroot, registry)
       => /\ ~aresult.raised
          /\ Len(aresult.rows) = 1
          /\ aresult.rows[1].status = "ok"
          /\ aresult.rows[1].source_path = RootPath
          /\ "note" \in DOMAIN aresult.rows[1].metadata
          /\ aresult.rows[1].metadata.note = "no supported files found"
    /\ aresult # NoRet /\ ~aresult.raised => aresult.rows # <<>>
    /\ aret # NoRet /\ ~aret.raised => aret.rows # <<>>

\* an archive of two files with unregistered names, and an archive whose
\* only member is an archive while zip is not registered, were extracted
C25_Witness ==
    /\ astack = <<>>
    /\ lastOp = "finish"
    /\ aroot \in {ArchBody("foreign", 0), ArchBody("quine", 0)}
    /\ NoResolvableMember(aroot, registry)
    /\ Len(aresult.rows) = 1

(***************************************************************************)
(* The command line: cli_unifile.cli.main(argv).                           *)
(***************************************************************************)
\* the keyword parameters of pipeline.set_runtime_options, which are also
\* the runtime options extract_to_table takes
RuntimeOptionNames == DOMAIN NoArgs

\* the keywords main passes to set_runtime_options and to extract_to_table
CliKeywords ==
    {"enable_tables", "enable_block_types", "metadata_mode", "ocr_lang",
     "no_ocr", "asr_backend", "asr_model", "asr_device", "asr_compute_type",
     "media_chunk_seconds"}

\* a call with keywords kw of a function whose keyword-only parameters are
\* params and that takes no **kwargs: TypeError for an unexpected keyword
CallAccepted(params, kw) == kw \subseteq params

\* the options of the command line that set_runtime_options knows
CliArgs(argv) ==
    [NoArgs EXCEPT !.ocr_lang = argv.ocr_lang,
                   !.no_ocr = argv.no_ocr,
                   !.asr_model = argv.asr_model]

CliArgvs ==
    {Argv("list-types", FALSE, PathGone, o, None, "False", None) : o \in BOOLEAN}
    \cup {Argv("extract", FALSE, PathGone, FALSE, None, "False", None)}
    \cup {Argv("extract", TRUE, p, o, l, n, m) :
             p \in SeqPaths \cup CfgPaths, o \in BOOLEAN,
             l \in {None, "ita"}, n \in {"False", "True"}, m \in {None, "small"}}

\* main(argv) for the subcommands list-types and extract with a local path
CliMain ==
    \E argv \in CliArgvs :
      LET p   == argv.path
          c   == fs[p]
          ext == detect_extractor(registry, p)
          rt  == SetRuntime(runtime, CliArgs(argv))
          env == ApplyRuntimeEnv(rt, environ)
          end(pc, status, exc, extracted, printed, saved) ==
              cli' = CliRun(argv, pc, status, exc, extracted, printed, saved)
      IN
      /\ UNCHANGED <<fs, registry, supported, manVars, lastOp>>
      /\ UNCHANGED <<archVars, batchVars, cfgVars, normVars, bx, fetch, thrVars>>
      /\ IF argv.cmd = "list-types"
         THEN /\ end("returned", 0, None, FALSE, "types", FALSE)
              /\ UNCHANGED <<runtime, environ>>
         ELSE IF ~argv.given
         THEN /\ end("returned", 2, None, FALSE, "error: missing input", FALSE)
              /\ UNCHANGED <<runtime, environ>>
         ELSE IF c = NoFile
         THEN /\ end("returned", 2, None, FALSE, "error: file not found", FALSE)
              /\ UNCHANGED <<runtime, environ>>
         ELSE IF ~CallAccepted(RuntimeOptionNames, CliKeywords)
         THEN /\ end("raised", -1, "TypeError", FALSE, "nothing", FALSE)
              /\ UNCHANGED <<runtime, environ>>
         ELSE /\ runtime' = rt
              /\ environ' = env
              /\ IF ~IsFile(c)
                 THEN end("raised", -1, "FileNotFoundError", FALSE, "nothing", FALSE)
                 ELSE IF ext = <<None>>
                 THEN end("raised", -1, "ValueError", FALSE, "nothing", FALSE)
                 ELSE LET res == Extract(registry[ext], p, c)
                      IN  IF res.raised
                          THEN end("raised", -1, res.exc, TRUE, "nothing", FALSE)
                          ELSE end("returned", 0, None, TRUE,
                                   IF argv.out THEN "Saved standardized table"
                                   ELSE "table",
                                   argv.out)

CliSpec == Init /\ [][CliMain]_vars

\* C26: the extract command given an existing file of a supported type
\* returns exit status 0 after it printed or saved the table; given a path
\* at which nothing is, it returns a status other than 0 and runs no
\* extraction.
C26_ExitStatus ==
    cli.pc # "idle" /\ cli.argv.cmd = "extract" /\ cli.argv.given =>
      /\ /\ IsFile(fs[cli.argv.path])
         /\ detect_extractor(registry, cli.argv.path) # <<None>>
         => /\ cli.pc = "returned"
            /\ cli.status = 0
            /\ cli.extracted
            /\ IF cli.argv.out THEN cli.saved ELSE cli.printed = "table"
      /\ fs[cli.argv.path] = NoFile
         => /\ cli.pc = "returned"
            /\ cli.status # 0
            /\ ~cli.extracted

(***************************************************************************)
(* web_extractor._fetch_bytes: the retry loop around one GET.  Times are   *)
(* in hundredths of a second.                                              *)
(***************************************************************************)
\* FetchOptions.backoff_base: the default 0.5 s, and 0.05 s, 0.25 s, 1 s
DefaultBackoffBase == 50

BackoffBases == {5, 25, DefaultBackoffBase, 100}

\* 0.1 * math.sin(time.time()): between -0.1 s and 0.1 s
Jitters == {-10, 0, 10}

\* what fails one attempt: the GET or raise_for_status raises, or the body
\* is longer than opts.max_bytes
FetchErrors == {"HTTPStatusError", "ValueError"}

Max(a, b) == IF a >= b THEN a ELSE b

\* (mutant) the delay does not depend on the attempt
SleepFor_Flat(backoff_base, attempt, jitter) ==
    Max(5, backoff_base + jitter)

\* max(0.05, opts.backoff_base * (2 ** attempt) + jitter)
SleepFor(backoff_base, attempt, jitter) ==
    Max(5, backoff_base * (2 ^ attempt) + jitter)

\* _fetch_bytes(url, client, opts) is called; retries + 1 >= 1 iterations
FetchBegin ==
    /\ fetch.pc \in {"idle", "returned", "raised"}
    /\ \E r \in 0..MaxRetries, b \in BackoffBases :
          fetch' = FetchCall("attempt", r, b, 0, 0, <<>>, <<>>, None, -1)
    /\ UNCHANGED <<seqVars, archVars, batchVars, cfgVars, normVars, bx, cli, thrVars>>

\* one iteration whose request succeeds: return data, meta
FetchOk ==
    /\ fetch.pc = "attempt"
    /\ fetch' = [fetch EXCEPT !.pc = "returned",
                              !.requests = @ + 1,
                              !.data = fetch.attempt]
    /\ UNCHANGED <<seqVars, archVars, batchVars, cfgVars, normVars, bx, cli, thrVars>>

\* one iteration whose request fails with e: exc = e, then the loop is left
\* and exc raised after the last attempt, else the sleep and the next
\* iteration
FetchFail ==
    /\ fetch.pc = "attempt"
    /\ \E e \in FetchErrors, j \in Jitters :
          fetch' =
            IF fetch.attempt = fetch.retries
            THEN [fetch EXCEPT !.pc = "raised",
                               !.requests = @ + 1,
                               !.failures = Append(@, e),
                               !.exc = e]
            ELSE [fetch EXCEPT !.requests = @ + 1,
                               !.failures = Append(@, e),
                               !.exc = e,
                               !.attempt = @ + 1,
                               !.sleeps = Append(@, SleepFor(fetch.backoff_base,
                                                             fetch.attempt, j))]
    /\ UNCHANGED <<seqVars, archVars, batchVars, cfgVars, normVars, bx, cli, thrVars>>

FetchNext == FetchBegin \/ FetchOk \/ FetchFail

FetchSpec == Init /\ [][FetchNext]_vars

\* the k-th sleep is within the jitter of backoff_base * 2^(k-1), and never
\* below the floor of 0.05 s
SleepIsBackoff(k) ==
    LET term == fetch.backoff_base * (2 ^ (k - 1))
    IN  /\ fetch.sleeps[k] >= 5
        /\ fetch.sleeps[k] >= term - 10
        /\ fetch.sleeps[k] <= Max(5, term + 10)

ExtractedUnderManifest ==
    /\ lastOp = "extract_to_table"
    /\ last.manifest /\ ~last.dup /\ last.invoked /\ ~last.raised

NoUnitRecordedOk ==
    /\ ExtractedUnderManifest
    /\ last.nunits = 0
    /\ LineField(Len(mlog), "status") = "ok"

(***************************************************************************)
(* The depth counter around the dispatch of a member.                      *)
(***************************************************************************)
\* C29: in an archive extraction entered with the counter at d, the counter
\* is d+1 while a member is being dispatched (seen where the member is an
\* archive whose own extraction is running its guard, unpacking or walking)
\* and d again when the dispatch has ended and the walk goes on; when the
\* top-level extraction has returned, however it ended, the counter is what
\* it was when the extraction began.
C29_DepthRestored ==
    /\ \A i \in 1..(Len(astack) - 1) :
          (astack[i].pc = "await" /\ i + 1 = Len(astack)
           /\ Top.pc \in {"start", "walk"} /\ lastOp \in {"enter", "unpack", "skip"})
          => EnvDepth(environ) = astack[i].depth + 1
    /\ (astack # <<>> /\ lastOp \in {"member", "resume"})
          => EnvDepth(environ) = Top.depth
    /\ (astack = <<>> /\ aresult # NoRet)
          => EnvDepth(environ) = depth0

(***************************************************************************)
(* The provenance of the Units an archive takes from its members.          *)
(***************************************************************************)
\* the fields of a Unit besides its metadata
PlainFields ==
    {"source_path", "source_name", "file_type", "unit_type", "unit_id",
     "content", "char_count", "status", "error"}

\* new are the Units orig with archive_member set to rel: every other field
\* and every other metadata key is as in orig
TaggedFrom(new, orig, rel) ==
    /\ Len(new) = Len(orig)
    /\ \A i \in 1..Len(orig) :
          /\ \A f \in PlainFields : new[i][f] = orig[i][f]
          /\ "archive_member" \in DOMAIN new[i].metadata
          /\ new[i].metadata.archive_member = rel
          /\ DOMAIN new[i].metadata \ {"archive_member"}
                = DOMAIN orig[i].metadata \ {"archive_member"}
          /\ \A k \in DOMAIN orig[i].metadata \ {"archive_member"} :
                new[i].metadata[k] = orig[i].metadata[k]

\* the Units the step added to the output of the running extraction
AddedUnits == SubSeq(Top'.out, Len(Top.out) + 1, Len(Top'.out))

\* C30: the Units a step of an archive extraction takes from the dispatch
\* of a member (a file read by one extractor, or an archive whose nested
\* extraction returned) are the Units that dispatch produced, in order, each
\* with metadata archive_member set to the member's path relative to the
\* scratch root of the extraction taking them, and with every other field
\* and metadata key unchanged; the Units taken before stay as they are.
C30_MemberProvenance ==
    [][/\ lastOp' = "member" =>
            LET m == Head(Top.todo)
                p == MemberPath(Top.work, m)
            IN  /\ TaggedFrom(AddedUnits,
                              Extract(registry[detect_extractor(registry, p)],
                                      p, m.body.leaf).rows,
                              [stem |-> m.rel, suffix |-> m.suffix])
                /\ SubSeq(Top'.out, 1, Len(Top.out)) = Top.out
       /\ lastOp' = "resume" =>
            LET m == Head(Top.todo)
            IN  /\ TaggedFrom(AddedUnits, aret.rows,
                              [stem |-> m.rel, suffix |-> m.suffix])
                /\ SubSeq(Top'.out, 1, Len(Top.out)) = Top.out]_vars

\* an extraction took from a nested archive a Unit that named a member of
\* the nested archive, and the Unit now names the nested archive
C30_Witness ==
    /\ astack # <<>>
    /\ lastOp = "resume"
    /\ \E i \in 1..Len(Top.out) :
          /\ Top.out[i].metadata.archive_member.suffix \in {SfxZip, SfxZIP}
          /\ "encoding" \in DOMAIN Top.out[i].metadata
          /\ Top.out[i].char_count > 0

(***************************************************************************)
(* Dispatches of one extract_paths call that share a Manifest, at the      *)
(* grain of the statements of extract_to_table and Manifest.record: each   *)
(* dispatch runs in its own worker thread (asyncio.to_thread) and a thread  *)
(* can be preempted between any two of them.                               *)
(***************************************************************************)
MaxWriters == 2

\* the inputs of these batches: two files with the same content and a deck
RecPaths == {PathA, PathB, PathS}

\* a dispatch that has built its extractor and is about to look at the Manifest
Writer(p) == [path |-> p, pc |-> "built", dup |-> FALSE, status |-> None,
              buf |-> <<>>]

\* extract_paths(paths, manifest = M): one worker thread per path
R_Start ==
    /\ wr = <<>>
    /\ \E n \in 1..MaxWriters : \E paths \in [1..n -> RecPaths] :
          wr' = [i \in 1..n |-> Writer(paths[i])]
    /\ lastOp' = "extract_paths"
    /\ UNCHANGED <<fs, registry, supported, runtime, environ, manVars>>
    /\ UNCHANGED <<archVars, batchVars, cfgVars, normVars, oldFnVars, thrVarsBut_wr>>

\* worker i: is_dup, _, _ = manifest.check(path)
R_Check(i) ==
    /\ wr[i].pc = "built"
    /\ wr' = [wr EXCEPT ![i].pc = "checked",
                        ![i].dup = ManifestCheck(hashes, fs[wr[i].path])[1]]
    /\ lastOp' = "manifest_check"
    /\ UNCHANGED <<fs, registry, supported, runtime, environ, manVars>>
    /\ UNCHANGED <<archVars, batchVars, cfgVars, normVars, oldFnVars, thrVarsBut_wr>>

\* worker i: rows = extractor.extract(path) and the status of the rows, or
\* the status "duplicate" with no extraction
R_Extract(i) ==
    LET p   == wr[i].path
        h   == HashFile(fs[p])[1]
        res == Extract(registry[detect_extractor(registry, p)], p, fs[p])
    IN  /\ wr[i].pc = "checked"
        /\ wr' = [wr EXCEPT ![i].pc = "recording",
                            ![i].status = IF wr[i].dup THEN "duplicate"
                                          ELSE RecordStatus(res.rows)]
        /\ invocations' =
              IF wr[i].dup THEN invocations
              ELSE [invocations EXCEPT ![h] = [all |-> @.all + 1,
                                               returned |-> @.returned + 1]]
        /\ lastOp' = "extract"
        /\ UNCHANGED <<fs, registry, supported, runtime, environ, mlog, mopen,
                       hashes, last, recorded, ncalls, nwrites, nreloads>>
        /\ UNCHANGED <<archVars, batchVars, cfgVars, normVars, oldFnVars, thrVarsBut_wr>>

\* worker i, Manifest.record: the entry is built and self.path.open("a")
\* gives the thread its own file object on the log
R_Open(i) ==
    /\ wr[i].pc = "recording"
    /\ wr' = [wr EXCEPT ![i].pc = "opened"]
    /\ lastOp' = "record_open"
    /\ UNCHANGED <<fs, registry, supported, runtime, environ, manVars>>
    /\ UNCHANGED <<archVars, batchVars, cfgVars, normVars, oldFnVars, thrVarsBut_wr>>

\* worker i, Manifest.record: fh.write(json.dumps(entry) + "\n") puts the
\* line into the buffer of the thread's file object
R_Write(i) ==
    LET p == wr[i].path
    IN  /\ wr[i].pc = "opened"
        /\ wr' = [wr EXCEPT ![i].pc = "written",
                            ![i].buf = JsonDumps(Entry(p, fs[p], wr[i].status))]
        /\ lastOp' = "record_write"
        /\ UNCHANGED <<fs, registry, supported, runtime, environ, manVars>>
        /\ UNCHANGED <<archVars, batchVars, cfgVars, normVars, oldFnVars, thrVarsBut_wr>>

\* worker i, Manifest.record: leaving the with block closes the file object,
\* which hands the buffered line to the file in one append
R_Close(i) ==
    /\ wr[i].pc = "written"
    /\ mlog' = FileAppendLine(mlog, mopen, wr[i].buf)
    /\ wr' = [wr EXCEPT ![i].pc = "closed", ![i].buf = <<>>]
    /\ lastOp' = "record_close"
    /\ UNCHANGED <<fs, registry, supported, runtime, environ, mopen, hashes,
                   last, invocations, recorded, ncalls, nwrites, nreloads>>
    /\ UNCHANGED <<archVars, batchVars, cfgVars, normVars, oldFnVars, thrVarsBut_wr>>

\* worker i, Manifest.record: self.hashes.add(h), and the dispatch returns
R_Add(i) ==
    LET h == HashFile(fs[wr[i].path])[1]
    IN  /\ wr[i].pc = "closed"
        /\ hashes' = hashes \cup {h}
        /\ recorded' = recorded \cup {h}
        /\ wr' = [wr EXCEPT ![i].pc = "done"]
        /\ lastOp' = "record_add"
        /\ UNCHANGED <<fs, registry, supported, runtime, environ, mlog, mopen,
                       last, invocations, ncalls, nwrites, nreloads>>
        /\ UNCHANGED <<archVars, batchVars, cfgVars, normVars, oldFnVars, thrVarsBut_wr>>

WriterStep ==
    \E i \in 1..Len(wr) :
       R_Check(i) \/ R_Extract(i) \/ R_Open(i) \/ R_Write(i) \/ R_Close(i) \/ R_Add(i)

RecordNext == R_Start \/ WriterStep

RecordSpec == Init /\ [][RecordNext]_vars

\* the workers that are inside Manifest.record between the opening of the log
\* and the addition of the hash
InRecord == {i \in 1..Len(wr) : wr[i].pc \in {"opened", "written", "closed"}}

\* C31: the record calls of the dispatches that share a Manifest are
\* serialized: at most one worker thread is between opening the log for
\* append and adding the hash to the seen-set, and every line of the log is
\* one complete entry.
C31_RecordSerialized ==
    /\ Cardinality(InRecord) <= 1
    /\ \A k \in 1..Len(mlog) :
          \E i \in 1..Len(wr) :
             mlog[k] = JsonDumps(Entry(wr[i].path, fs[wr[i].path], wr[i].status))

\* the pairs of dispatches of the batch whose paths hold the same content
SameContentPairs ==
    {pr \in (1..Len(wr)) \X (1..Len(wr)) :
        /\ pr[1] < pr[2]
        /\ HashFile(fs[wr[pr[1]].path])[1] = HashFile(fs[wr[pr[2]].path])[1]}

\* C36: when two dispatches of a batch that share a Manifest are given paths
\* with the same content, not yet in the Manifest, and both have finished,
\* the content was extracted by exactly one of them and the other was
\* recorded as "duplicate".
C36_ExtractedOnce ==
    \A pr \in SameContentPairs :
       (wr[pr[1]].pc = "done" /\ wr[pr[2]].pc = "done") =>
          /\ invocations[HashFile(fs[wr[pr[1]].path])[1]].all = 1
          /\ Cardinality({i \in {pr[1], pr[2]} : wr[i].status = "duplicate"}) = 1

(***************************************************************************)
(* Dispatches of one batch that pass different options, at the grain of    *)
(* the statements of extract_to_table: set_runtime_options, factory(),     *)
(* _apply_runtime_to_instance and extractor.extract, each dispatch in its   *)
(* own worker thread.                                                      *)
(***************************************************************************)
MaxDispatchers == 2

\* the inputs of these batches
OptPaths == {PathPdf, PathPng, PathCsv}

\* the options the dispatches pass
OptKwArgs ==
    {ArgsIta,
     [NoArgs EXCEPT !.ocr_langs = "eng+fra"],
     [NoArgs EXCEPT !.deterministic = "True", !.no_ocr = "True",
                    !.table_as_cells = "True"]}

\* one dispatch: its arguments, its position, its extractor, the
\* configuration and the environment as they were when the extractor was
\* constructed, and the fields of the extractor while extract ran
OptDispatch(p, a) ==
    [path |-> p, args |-> a, pc |-> "called", inst |-> NoInst,
     rtAtBuild |-> RUNTIME_DEFAULT, envAtBuild |-> EmptyMap, used |-> NoInst]

\* the dispatches are started, each with its own keyword arguments
O_Start ==
    /\ od = <<>>
    /\ \E n \in 1..MaxDispatchers :
          \E paths \in [1..n -> OptPaths], as \in [1..n -> OptKwArgs] :
             od' = [i \in 1..n |-> OptDispatch(paths[i], as[i])]
    /\ lastOp' = "extract_paths"
    /\ UNCHANGED <<fs, registry, supported, runtime, environ, manVars>>
    /\ UNCHANGED <<archVars, batchVars, cfgVars, normVars, oldFnVars, thrVarsBut_od>>

\* dispatch i: set_runtime_options(**its own options)
O_Set(i) ==
    /\ od[i].pc = "called"
    /\ runtime' = SetRuntime(runtime, od[i].args)
    /\ environ' = ApplyRuntimeEnv(runtime', environ)
    /\ od' = [od EXCEPT ![i].pc = "configured"]
    /\ lastOp' = "set_runtime_options"
    /\ UNCHANGED <<fs, registry, supported, manVars>>
    /\ UNCHANGED <<archVars, batchVars, cfgVars, normVars, oldFnVars, thrVarsBut_od>>

\* dispatch i: extractor = factory()
O_Build(i) ==
    /\ od[i].pc = "configured"
    /\ od' = [od EXCEPT
                ![i].pc = "built",
                ![i].inst = Factory(registry[detect_extractor(registry, od[i].path)]),
                ![i].rtAtBuild = runtime,
                ![i].envAtBuild = environ]
    /\ lastOp' = "factory"
    /\ UNCHANGED <<fs, registry, supported, runtime, environ, manVars>>
    /\ UNCHANGED <<archVars, batchVars, cfgVars, normVars, oldFnVars, thrVarsBut_od>>

\* dispatch i: _apply_runtime_to_instance(extractor) copies from _RUNTIME as
\* it is now
O_Apply(i) ==
    /\ od[i].pc = "built"
    /\ od' = [od EXCEPT ![i].pc = "applied",
                        ![i].inst = apply_runtime_to_instance(od[i].inst, runtime)]
    /\ lastOp' = "apply_runtime_to_instance"
    /\ UNCHANGED <<fs, registry, supported, runtime, environ, manVars>>
    /\ UNCHANGED <<archVars, batchVars, cfgVars, normVars, oldFnVars, thrVarsBut_od>>

\* dispatch i: extractor.extract(path); a PdfExtractor first overrides its
\* fields from os.environ as it is now
O_Extract(i) ==
    /\ od[i].pc = "applied"
    /\ od' = [od EXCEPT ![i].pc = "done",
                        ![i].used = InstanceAtExtract(od[i].inst, environ)]
    /\ lastOp' = "extract"
    /\ UNCHANGED <<fs, registry, supported, runtime, environ, manVars>>
    /\ UNCHANGED <<archVars, batchVars, cfgVars, normVars, oldFnVars, thrVarsBut_od>>

OptStep == \E i \in 1..Len(od) : O_Set(i) \/ O_Build(i) \/ O_Apply(i) \/ O_Extract(i)

OptNext == O_Start \/ OptStep

OptSpec == Init /\ [][OptNext]_vars

\* the fields an extractor has during extract when nothing is set between its
\* construction and its extraction
ConfiguredAtBuild(d) ==
    InstanceAtExtract(apply_runtime_to_instance(Factory(d.inst.cls), d.rtAtBuild),
                      d.envAtBuild)

\* C32: the option values an extractor uses during extract are those of the
\* last set_runtime_options call made before the extractor was constructed;
\* set calls other dispatches make after its construction do not affect it.
C32_LastWriterBeforeConstruction ==
    \A i \in 1..Len(od) :
       od[i].pc = "done" => od[i].used = ConfiguredAtBuild(od[i])

(***************************************************************************)
(* The import of the package.  A module is absent, partly executed (it is  *)
(* in sys.modules but only the names of the statements executed so far     *)
(* exist) or loaded; "from m import name" on a partly executed module that *)
(* has not yet defined the name raises ImportError.                        *)
(***************************************************************************)
ExtTar  == <<"t", "a", "r">>
ExtGz   == <<"g", "z">>
ExtTgz  == <<"t", "g", "z">>
ExtBz2  == <<"b", "z", "2">>
ExtTbz  == <<"t", "b", "z">>
ExtXz   == <<"x", "z">>
ExtEpub == <<"e", "p", "u", "b">>
ExtJson == <<"j", "s", "o", "n">>
ExtXml  == <<"x", "m", "l">>

\* ArchiveExtractor.supported_extensions
ArchiveExts == {ExtZip, ExtTar, ExtGz, ExtTgz, ExtBz2, ExtTbz, ExtXz}

\* the entries pipeline adds when INCLUDE_FILE_TYPES_COMPRESSED is true
CompressedEntries ==
    [e \in ArchiveExts \cup {ExtEpub, ExtJson, ExtXml} |->
        CASE e = ExtEpub -> "EpubExtractor"
          [] e = ExtJson -> "JsonExtractor"
          [] e = ExtXml  -> "XmlExtractor"
          [] OTHER       -> "ArchiveExtractor"]

\* the entries pipeline adds when INCLUDE_FILE_TYPES_MEDIA is true
MediaEntries == [e \in {ExtWav} |-> REGISTRY_BASE[e]]

\* the entries of the literal REGISTRY_BASE = {...}
LiteralEntries == [e \in (DOMAIN REGISTRY_BASE) \ {ExtWav} |-> REGISTRY_BASE[e]]

\* the module a process imports first
ImportEntries == {"package", "pipeline", "archive_extractor"}

PathZip  == MkPath(<<"d1">>, "outer", <<".", "z", "i", "p">>)
PathTgz  == MkPath(<<"d1">>, "logs", <<".", "t", "g", "z">>)
PathEpub == MkPath(<<"d1">>, "book", <<".", "e", "p", "u", "b">>)
PathJson == MkPath(<<"d1">>, "data", <<".", "j", "s", "o", "n">>)

\* the paths looked up once the import is over
ProbePaths == {PathZip, PathTgz, PathEpub, PathJson, PathA, PathWav}

\* the module whose statements are being executed
Executing(s) == IF s = <<>> THEN "none" ELSE s[Len(s)]

Pop(s) == SubSeq(s, 1, Len(s) - 1)

\* the process imports its first module; archDeps: bs4 and ebooklib are
\* importable, mediaDeps: the audio and video extractors are
ImportStart ==
    /\ imp = NoImport
    /\ \E e \in ImportEntries, ad \in BOOLEAN, md \in BOOLEAN :
          imp' = [imp EXCEPT
                    !.entry = e, !.archDeps = ad, !.mediaDeps = md,
                    !.stack = <<e>>,
                    !.pmod = IF e = "pipeline" THEN "head" ELSE "absent",
                    !.amod = IF e = "archive_extractor" THEN "head" ELSE "absent"]
    /\ lastOp' = "import"
    /\ UNCHANGED <<fs, registry, supported, runtime, environ, manVars>>
    /\ UNCHANGED <<archVars, batchVars, cfgVars, normVars, oldFnVars, thrVarsBut_imp>>

\* unifile/__init__.py: unifile.core and unifile.outputs are imported (they
\* import neither pipeline nor archive_extractor), then unifile.pipeline
PackageImportsPipeline ==
    /\ Executing(imp.stack) = "package"
    /\ imp.pmod = "absent"
    /\ imp' = [imp EXCEPT !.pmod = "head", !.stack = Append(@, "pipeline")]
    /\ lastOp' = "import"
    /\ UNCHANGED <<fs, registry, supported, runtime, environ, manVars>>
    /\ UNCHANGED <<archVars, batchVars, cfgVars, normVars, oldFnVars, thrVarsBut_imp>>

\* "from m import name" raises ImportError when m is partly executed and the
\* name is defined by a statement m has not reached: extract_to_table and
\* detect_extractor are defined at the end of pipeline, ArchiveExtractor
\* after the imports of archive_extractor
ImportFromPartial(st) == st \in {"head", "importing", "tail"}

\* pipeline.py, the first try block: from ...archive_extractor import
\* ArchiveExtractor, then the epub, json and xml extractors; when the first
\* import starts archive_extractor, that module's own import of pipeline
\* decides how the try block ends (ArchiveImportsPipeline)
PipelineTryArchive ==
    /\ Executing(imp.stack) = "pipeline"
    /\ imp.pmod = "head"
    /\ imp' =
         IF imp.amod = "absent"
         THEN [imp EXCEPT !.pmod = "importing", !.amod = "head",
                          !.stack = Append(@, "archive_extractor")]
         ELSE IF ImportFromPartial(imp.amod)
         THEN [imp EXCEPT !.pmod = "tail", !.include = "False"]
         ELSE [imp EXCEPT !.pmod = "tail",
                          !.include = IF imp.archDeps THEN "True" ELSE "False"]
    /\ lastOp' = "import"
    /\ UNCHANGED <<fs, registry, supported, runtime, environ, manVars>>
    /\ UNCHANGED <<archVars, batchVars, cfgVars, normVars, oldFnVars, thrVarsBut_imp>>

\* archive_extractor.py: from unifile.pipeline import extract_to_table,
\* detect_extractor.  An ImportError removes archive_extractor from
\* sys.modules and reaches the import statement of pipeline, whose except
\* clause sets INCLUDE_FILE_TYPES_COMPRESSED = False
ArchiveImportsPipeline ==
    /\ Executing(imp.stack) = "archive_extractor"
    /\ imp.amod = "head"
    /\ imp' =
         IF imp.pmod = "absent"
         THEN [imp EXCEPT !.amod = "importing", !.pmod = "head",
                          !.stack = Append(@, "pipeline")]
         ELSE IF ImportFromPartial(imp.pmod)
         THEN [imp EXCEPT !.amod = "absent", !.stack = Pop(@),
                          !.pmod = "tail", !.include = "False"]
         ELSE [imp EXCEPT !.amod = "loaded", !.stack = Pop(@)]
    /\ lastOp' = "import"
    /\ UNCHANGED <<fs, registry, supported, runtime, environ, manVars>>
    /\ UNCHANGED <<archVars, batchVars, cfgVars, normVars, oldFnVars, thrVarsBut_imp>>

\* pipeline.py from the media try block to its end: REGISTRY_BASE and its
\* two conditional updates, REGISTRY, detect_extractor, extract_to_table
PipelineTail ==
    LET r1 == IF imp.include = "True"
              THEN DictUpdate(LiteralEntries, CompressedEntries) ELSE LiteralEntries
        r2 == IF imp.mediaDeps THEN DictUpdate(r1, MediaEntries) ELSE r1
    IN  /\ Executing(imp.stack) = "pipeline"
        /\ imp.pmod = "tail"
        /\ imp' = [imp EXCEPT !.pmod = "loaded", !.reg = r2, !.stack = Pop(@)]
        /\ lastOp' = "import"
        /\ UNCHANGED <<fs, registry, supported, runtime, environ, manVars>>
        /\ UNCHANGED <<archVars, batchVars, cfgVars, normVars, oldFnVars, thrVarsBut_imp>>

\* the module that imported pipeline goes on to its end: archive_extractor
\* binds the two names and defines ArchiveExtractor, the package binds
\* detect_extractor and SUPPORTED_EXTENSIONS
ImporterFinishes ==
    /\ imp.pmod = "loaded"
    /\ \/ Executing(imp.stack) = "package" /\ imp' = [imp EXCEPT !.stack = Pop(@)]
       \/ /\ Executing(imp.stack) = "archive_extractor"
          /\ imp.amod = "importing"
          /\ imp' = [imp EXCEPT !.amod = "loaded", !.stack = Pop(@)]
    /\ lastOp' = "import"
    /\ UNCHANGED <<fs, registry, supported, runtime, environ, manVars>>
    /\ UNCHANGED <<archVars, batchVars, cfgVars, normVars, oldFnVars, thrVarsBut_imp>>

Imported == imp.entry # "none" /\ imp.stack = <<>>

\* after the import: detect_extractor(p) against the registry it built
ImportProbe ==
    /\ Imported
    /\ \E p \in ProbePaths :
          imp' = [imp EXCEPT !.probe = [path |-> p, ext |-> detect_extractor(imp.reg, p)]]
    /\ lastOp' = "detect_extractor"
    /\ UNCHANGED <<fs, registry, supported, runtime, environ, manVars>>
    /\ UNCHANGED <<archVars, batchVars, cfgVars, normVars, oldFnVars, thrVarsBut_imp>>

ImportNext ==
    \/ ImportStart \/ PackageImportsPipeline \/ PipelineTryArchive
    \/ ArchiveImportsPipeline \/ PipelineTail
    \/ ImporterFinishes \/ ImportProbe

ImportSpec == Init /\ [][ImportNext]_vars

\* C33: in a process where the dependencies of the archive extractor are
\* importable, the finished import has registered zip, tar, gz, tgz, bz2,
\* tbz, xz, epub, json and xml, and a path with one of these extensions
\* resolves through detect_extractor.
C33_ArchiveTypesRegistered ==
    (Imported /\ imp.archDeps) =>
       /\ DOMAIN CompressedEntries \subseteq DOMAIN imp.reg
       /\ imp.probe.path \in {PathZip, PathTgz, PathEpub, PathJson}
             => imp.probe.ext = norm_ext(imp.probe.path)

\* the ASR model a dispatch asks for: whisper_model, else asr_model
ModelPassed(a) == IF a.whisper_model # None THEN a.whisper_model ELSE a.asr_model

\* C34: the ASR model option is published under the variable name the ASR
\* backend reads: when the dispatch of an audio file passes asr_model or
\* whisper_model and the backend loads its model during that dispatch, the
\* model loaded is the one passed.
C34_PassedModelIsLoaded ==
    [][(/\ lastOp' = "extract_to_table"
        /\ ncalls' = ncalls + 1
        /\ dcall'.inst.cls = "AudioExtractor"
        /\ ModelPassed(dcall'.args) # None
        /\ ~asr.initialized
        /\ asr'.initialized)
       => asr'.model = ModelPassed(dcall'.args)]_vars

(***************************************************************************)
(* web_extractor.extract_many: one coroutine per URL on one event loop, a  *)
(* semaphore of `concurrency` permits, and a per-host politeness delay     *)
(* kept in last_visit.  Time is counted in whole units of the clock        *)
(* time.time() reads.                                                      *)
(***************************************************************************)
MaxUrls == 3

MaxDelay == 2

MaxTicks == 4

\* the hosts of the URLs
Hosts == {"a.example", "b.example"}

\* what time.time() returns when the call starts: later than any delay after
\* the 0 that last_visit.get(host, 0) gives for a host not yet visited
Epoch == MaxDelay + 1

\* _run(u) before its first statement
Coroutine(h) == [host |-> h, pc |-> "new", wake |-> 0, started |-> 0]

\* extract_many(urls, concurrency = c, per_host_delay = d) up to the await
\* of gather
WebStart ==
    /\ web = NoWeb
    /\ \E n \in 1..MaxUrls, c \in 1..MaxUrls, d \in 0..MaxDelay :
          \E hs \in [1..n -> Hosts] :
             web' = [pc |-> "awaiting", conc |-> c, delay |-> d, clock |-> Epoch,
                     sem |-> c, last_visit |-> EmptyMap,
                     co |-> [i \in 1..n |-> Coroutine(hs[i])]]
    /\ lastOp' = "extract_many"
    /\ UNCHANGED <<fs, registry, supported, runtime, environ, manVars>>
    /\ UNCHANGED <<archVars, batchVars, cfgVars, normVars, oldFnVars, thrVarsBut_web>>

\* last_visit.get(host, 0)
LastVisit(lv, h) == IF h \in DOMAIN lv THEN lv[h] ELSE 0

\* max(0.0, (last_visit.get(host, 0) + per_host_delay) - now)
WaitFor(lv, h, d, now) == Max(0, (LastVisit(lv, h) + d) - now)

\* coroutine i enters `async with sem` (the waiters of an asyncio.Semaphore
\* are served in the order they arrived) and runs to its first await: the
\* sleep when it has to wait, else the await of extract_from_url
CoEnter(i) ==
    LET h    == web.co[i].host
        wait == WaitFor(web.last_visit, h, web.delay, web.clock)
    IN  /\ web.pc = "awaiting"
        /\ web.co[i].pc = "new"
        /\ \A j \in 1..(i - 1) : web.co[j].pc # "new"
        /\ web.sem > 0
        /\ web' =
             IF web.delay > 0 /\ wait > 0
             THEN [web EXCEPT !.sem = @ - 1, !.co[i].pc = "sleeping",
                              !.co[i].wake = web.clock + wait]
             ELSE [web EXCEPT !.sem = @ - 1, !.co[i].pc = "fetching",
                              !.co[i].started = web.clock,
                              !.last_visit = IF web.delay > 0
                                             THEN MapPut(@, h, web.clock) ELSE @]
        /\ lastOp' = "enter"
        /\ UNCHANGED <<fs, registry, supported, runtime, environ, manVars>>
        /\ UNCHANGED <<archVars, batchVars, cfgVars, normVars, oldFnVars, thrVarsBut_web>>

\* coroutine i returns from asyncio.sleep(wait): last_visit[host] =
\* time.time(), then the await of extract_from_url
CoWake(i) ==
    /\ web.co[i].pc = "sleeping"
    /\ web.clock >= web.co[i].wake
    /\ web' = [web EXCEPT !.co[i].pc = "fetching", !.co[i].started = web.clock,
                          !.last_visit = MapPut(@, web.co[i].host, web.clock)]
    /\ lastOp' = "wake"
    /\ UNCHANGED <<fs, registry, supported, runtime, environ, manVars>>
    /\ UNCHANGED <<archVars, batchVars, cfgVars, normVars, oldFnVars, thrVarsBut_web>>

\* extract_from_url of coroutine i returns or raises: _run returns a frame
\* and the semaphore is released
CoFetched(i) ==
    /\ web.co[i].pc = "fetching"
    /\ web' = [web EXCEPT !.co[i].pc = "done", !.sem = @ + 1]
    /\ lastOp' = "fetched"
    /\ UNCHANGED <<fs, registry, supported, runtime, environ, manVars>>
    /\ UNCHANGED <<archVars, batchVars, cfgVars, normVars, oldFnVars, thrVarsBut_web>>

\* time passes; the event loop runs a timer that is due, and a coroutine
\* that can take a permit, before the clock moves on
WebTick ==
    /\ web.pc = "awaiting"
    /\ web.clock < Epoch + MaxTicks
    /\ \A i \in 1..Len(web.co) :
          /\ ~(web.co[i].pc = "sleeping" /\ web.co[i].wake <= web.clock)
          /\ ~(web.co[i].pc = "new" /\ web.sem > 0)
    /\ \E i \in 1..Len(web.co) : web.co[i].pc # "done"
    /\ web' = [web EXCEPT !.clock = @ + 1]
    /\ lastOp' = "tick"
    /\ UNCHANGED <<fs, registry, supported, runtime, environ, manVars>>
    /\ UNCHANGED <<archVars, batchVars, cfgVars, normVars, oldFnVars, thrVarsBut_web>>

\* gather returns once every coroutine has returned its frame
WebReturn ==
    /\ web.pc = "awaiting"
    /\ \A i \in 1..Len(web.co) : web.co[i].pc = "done"
    /\ web' = [web EXCEPT !.pc = "returned"]
    /\ lastOp' = "extract_many_return"
    /\ UNCHANGED <<fs, registry, supported, runtime, environ, manVars>>
    /\ UNCHANGED <<archVars, batchVars, cfgVars, normVars, oldFnVars, thrVarsBut_web>>

WebNext ==
    \/ WebStart \/ WebTick \/ WebReturn
    \/ \E i \in 1..Len(web.co) : CoEnter(i) \/ CoWake(i) \/ CoFetched(i)

WebSpec == Init /\ [][WebNext]_vars

\* the coroutines whose fetch has started
Started == {i \in 1..Len(web.co) : web.co[i].pc \in {"fetching", "done"}}

\* C35: with a per-host delay above zero, any two fetches extract_many
\* starts for the same host start at least the delay apart, for any number
\* of URLs per host and any concurrency limit.
C35_PerHostSpacing ==
    web.delay > 0 =>
       \A i \in Started, j \in Started :
          (i # j /\ web.co[i].host = web.co[j].host) =>
             \/ web.co[i].started - web.co[j].started >= web.delay
             \/ web.co[j].started - web.co[i].started >= web.delay

(***************************************************************************)
(* Archive extractions run concurrently by extract_paths, each in its own  *)
(* worker thread, at the grain of the statements of                        *)
(* ArchiveExtractor._extract that read or write UNIFILE_ARCHIVE_DEPTH in   *)
(* os.environ, which all threads of the process share.  zip has to be      *)
(* registered for an archive to be dispatched at all.                      *)
(***************************************************************************)
MaxArchThreads == 2

MaxNest == 1

\* an archive of shape 0 holds one text file, an archive of shape k + 1 one
\* archive of shape k
ArchShapes == 0..MaxNest

\* one running _extract call: the true nesting level of its archive, the
\* shape of the archive, the depth it read, and its position
AFrame(level, shape) == [level |-> level, shape |-> shape, depth |-> 0, pc |-> "start"]

\* one worker thread: its running _extract calls, outermost first, the
\* (level, depth) pairs its calls have read, and the levels the guard
\* stopped
AThread(shape) == [stack |-> <<AFrame(0, shape)>>, reads |-> {}, tripped |-> {}]

\* extract_paths([archive, ...]): one worker thread per archive
CA_Start ==
    /\ ax = <<>>
    /\ astack = <<>>
    /\ ExtZip \in DOMAIN registry
    /\ \E n \in 1..MaxArchThreads : \E shapes \in [1..n -> ArchShapes] :
          ax' = [t \in 1..n |-> AThread(shapes[t])]
    /\ lastOp' = "extract_paths"
    /\ UNCHANGED <<fs, registry, supported, runtime, environ, manVars>>
    /\ UNCHANGED <<archVars, batchVars, cfgVars, normVars, oldFnVars, thrVarsBut_ax>>

ATop(t) == ax[t].stack[Len(ax[t].stack)]

\* the stack of thread t after its innermost call has returned: the caller
\* is back in its loop, about to restore the counter
AReturn(stack) ==
    IF Len(stack) = 1 THEN <<>>
    ELSE [SubSeq(stack, 1, Len(stack) - 1) EXCEPT ![Len(stack) - 1].pc = "restore"]

\* thread t, _extract lines 58-71: the counter and the maximum are read and
\* the guard returns its Unit when the counter has reached the maximum
CA_Read(t) ==
    LET f     == ATop(t)
        depth == EnvDepth(environ)
        n     == Len(ax[t].stack)
    IN  /\ ax[t].stack # <<>>
        /\ f.pc = "start"
        /\ ax' = [ax EXCEPT
                    ![t].reads = @ \cup {[level |-> f.level, depth |-> depth]},
                    ![t].tripped = IF DepthExceeded(depth, EnvMaxDepth(environ))
                                   THEN @ \cup {f.level} ELSE @,
                    ![t].stack = IF DepthExceeded(depth, EnvMaxDepth(environ))
                                 THEN AReturn(@)
                                 ELSE [@ EXCEPT ![n].depth = depth, ![n].pc = "walk"]]
        /\ lastOp' = "depth_read"
        /\ UNCHANGED <<fs, registry, supported, runtime, environ, manVars>>
        /\ UNCHANGED <<archVars, batchVars, cfgVars, normVars, oldFnVars, thrVarsBut_ax>>

\* thread t, line 91: os.environ["UNIFILE_ARCHIVE_DEPTH"] = str(depth + 1)
CA_Raise(t) ==
    LET n == Len(ax[t].stack)
    IN  /\ ax[t].stack # <<>>
        /\ ATop(t).pc = "walk"
        /\ environ' = SetEnvDepth(environ, ATop(t).depth + 1)
        /\ ax' = [ax EXCEPT ![t].stack[n].pc = "dispatch"]
        /\ lastOp' = "depth_raise"
        /\ UNCHANGED <<fs, registry, supported, runtime, manVars>>
        /\ UNCHANGED <<archVars, batchVars, cfgVars, normVars, oldFnVars, thrVarsBut_ax>>

\* thread t, line 92: extract_to_table(member); a member that is an archive
\* starts a nested _extract call, a text file is extracted
CA_Dispatch(t) ==
    LET f == ATop(t)
        n == Len(ax[t].stack)
    IN  /\ ax[t].stack # <<>>
        /\ f.pc = "dispatch"
        /\ ax' = [ax EXCEPT
                    ![t].stack = IF f.shape = 0
                                 THEN [@ EXCEPT ![n].pc = "restore"]
                                 ELSE Append(@, AFrame(f.level + 1, f.shape - 1))]
        /\ lastOp' = "member_dispatch"
        /\ UNCHANGED <<fs, registry, supported, runtime, environ, manVars>>
        /\ UNCHANGED <<archVars, batchVars, cfgVars, normVars, oldFnVars, thrVarsBut_ax>>

\* thread t, line 93 and the end of the walk: os.environ[...] = str(depth),
\* the rows are tagged and the call returns
CA_Restore(t) ==
    /\ ax[t].stack # <<>>
    /\ ATop(t).pc = "restore"
    /\ environ' = SetEnvDepth(environ, ATop(t).depth)
    /\ ax' = [ax EXCEPT ![t].stack = AReturn(@)]
    /\ lastOp' = "depth_restore"
    /\ UNCHANGED <<fs, registry, supported, runtime, manVars>>
    /\ UNCHANGED <<archVars, batchVars, cfgVars, normVars, oldFnVars, thrVarsBut_ax>>

CA_Step == \E t \in 1..Len(ax) : CA_Read(t) \/ CA_Raise(t) \/ CA_Dispatch(t) \/ CA_Restore(t)

ConcArchNext == RegisterArchive \/ CA_Start \/ CA_Step

ConcArchSpec == ArchInit /\ [][ConcArchNext]_vars

\* C37: the depth counter an archive extraction reads when it starts is the
\* true nesting level of its archive, so the guard stops exactly the levels
\* at or beyond the configured maximum and never a top-level archive while
\* the maximum is at least 1.
C37_DepthIsNestingLevel ==
    \A t \in 1..Len(ax) :
       /\ \A r \in ax[t].reads : r.depth = r.level
       /\ \A l \in ax[t].tripped : l >= EnvMaxDepth(environ)

\* C38: an extract_to_table call that fails with NotFound or with
\* UnsupportedType leaves the process-wide configuration and its
\* environment mirror as they were before the call, whatever options the
\* call passed.
C38_FailedCallLeavesConfig ==
    [][(/\ lastOp' = "extract_to_table"
        /\ ncalls' = ncalls + 1
        /\ last'.raised
        /\ ~last'.invoked
        /\ last'.exc \in {"FileNotFoundError", "ValueError"})
       => (runtime' = runtime /\ environ' = environ)]_vars

(***************************************************************************)
(* The package-level extract_to_table.  unifile/__init__.py exports the    *)
(* function of core.py, a router of its own: it looks at no Registry, it   *)
(* routes by three sets of suffixes and reads every other file as text.    *)
(* CoreSpec calls it right after pipeline.extract_to_table on the same     *)
(* path, the file system unchanged in between.                             *)
(***************************************************************************)
\* core._TEXT_EXTS
TEXT_EXTS ==
    {SfxTxt, <<".", "m", "d">>, <<".", "r", "t", "f">>, <<".", "l", "o", "g">>}

\* core._MEDIA_EXTS
MEDIA_EXTS ==
    {SfxWav, <<".", "m", "p", "3">>, <<".", "m", "4", "a">>,
     <<".", "f", "l", "a", "c">>, <<".", "o", "g", "g">>,
     <<".", "w", "e", "b", "m">>, <<".", "a", "a", "c">>,
     <<".", "m", "p", "4">>, <<".", "m", "o", "v">>, <<".", "m", "k", "v">>}

\* the exception open(path, "r") raises, None when it opens
OpenError(c) ==
    CASE c = NoFile    -> "FileNotFoundError"
      [] c = Directory -> "IsADirectoryError"
      [] OTHER         -> None

\* the exception os.stat(path) raises, None when the path exists
StatError(c) == IF c = NoFile THEN "FileNotFoundError" ELSE None

\* core._make_row: a dict of the ten columns, the error an empty string when
\* there is none
core_make_row(p, unit_type, unit_id, content, file_type, status, error) ==
    Row(p, Basename(p), Lower(file_type), unit_type, unit_id, content,
        Len(content), EmptyMap, status, error)

\* text_extractor.extract_textlike on a text of one line: open raises for a
\* path that cannot be read; a blank text gives no block, any other text one
\* paragraph block
extract_textlike(p, c) ==
    IF OpenError(c) # None THEN Raised(OpenError(c))
    ELSE IF c.text = <<>> THEN Returned(<<>>)
    ELSE Returned(<<Row(p, Basename(p), ExtTxt, "block", 0, c.text, Len(c.text),
                        [block_type |-> "paragraph"], "ok", "")>>)

\* media.asr.transcribe_media with the dummy backend: os.stat raises for a
\* missing path, else one segment for a file of less than one chunk
transcribe_media(p, c) ==
    IF StatError(c) # None THEN Raised(StatError(c))
    ELSE Returned(<<Row(p, Basename(p), Lower(LStripDot(p.suffix)), "segment", 0,
                        <<"[dummy transcript segment 0]">>, 1,
                        [asr_backend |-> "dummy"], "ok", "")>>)

\* the fallback branch of core.extract_to_table: the file read as text, or
\* one error row when open raises
CoreFallback(p, c) ==
    LET ft == LStripDot(Lower(p.suffix))
    IN  IF OpenError(c) # None
        THEN Returned(<<core_make_row(p, "file", 0, <<>>, ft, "error", OpenError(c))>>)
        ELSE Returned(<<core_make_row(p, "file", 0, c.text, ft, "ok", "")>>)

\* core.extract_to_table(path): route by the lowered suffix, then for every
\* row sniff_basic_metadata (os.stat) and file_type = ext.lstrip("."), then
\* the DataFrame of the ten canonical columns; no exception of a branch or
\* of os.stat is caught (the HTML branch is left out: no path here is HTML)
core_extract_to_table(p, c) ==
    LET ext == Lower(p.suffix)
        got == CASE ext \in TEXT_EXTS  -> extract_textlike(p, c)
                 [] ext \in MEDIA_EXTS -> transcribe_media(p, c)
                 [] OTHER              -> CoreFallback(p, c)
    IN  IF got.raised THEN got
        ELSE IF got.rows # <<>> /\ StatError(c) # None THEN Raised(StatError(c))
        ELSE ReturnedTable([i \in 1..Len(got.rows) |->
                               [got.rows[i] EXCEPT !.file_type = LStripDot(ext)]])

\* the paths both functions are called on
CorePaths == SeqPaths \cup CfgPaths

\* pipeline.extract_to_table(p) with no option and no Manifest
CoreDispatch == \E p \in CorePaths : ExtractToTable(p, NoArgs, FALSE)

\* unifile.extract_to_table(p) on the path the pipeline was just called on
CoreCall ==
    /\ lastOp = "extract_to_table"
    /\ pkg' = [path |-> last.path, id |-> ncalls,
              res |-> core_extract_to_table(last.path, fs[last.path])]
    /\ lastOp' = "core.extract_to_table"
    /\ UNCHANGED <<fs, registry, supported, runtime, environ, manVars>>
    /\ UNCHANGED <<archVars, batchVars, cfgVars, normVars, oldFnVars, thrVarsBut_pkg>>

CoreNext == CoreDispatch \/ CoreCall \/ WriteFile \/ LoadPlugins

CoreSpec == Init /\ [][CoreNext]_vars

\* the class of an outcome: a table, the ValueError of an unsupported
\* extension, or any other exception
OutcomeClass(raised, exc) ==
    IF ~raised THEN "table"
    ELSE IF exc = "ValueError" THEN "UnsupportedType" ELSE "raise"

\* both functions have been called on the same path and the same file
Compared == lastOp = "core.extract_to_table"

\* C39: the package-level extract_to_table (core.py) and
\* pipeline.extract_to_table give the same class of outcome for every input:
\* both raise for a missing path, both raise UnsupportedType for an
\* unregistered extension, both return a canonical-schema table otherwise
C39_SameOutcomeClass ==
    Compared =>
        /\ OutcomeClass(pkg.res.raised, pkg.res.exc) = OutcomeClass(last.raised, last.exc)
        /\ fs[pkg.path] = NoFile => pkg.res.raised /\ last.raised
        /\ (IsFile(fs[pkg.path]) /\ detect_extractor(registry, pkg.path) = <<None>>)
              => /\ OutcomeClass(pkg.res.raised, pkg.res.exc) = "UnsupportedType"
                 /\ OutcomeClass(last.raised, last.exc) = "UnsupportedType"
        /\ ~pkg.res.raised =>
              \A i \in 1..Len(pkg.res.rows) : DOMAIN pkg.res.rows[i] = ColSet

=============================================================================
